---------------------------- MODULE Spec2Model ----------------------------
(***************************************************************************)
(* Location resolution and batch synchronisation pipeline of the paddy     *)
(* survey service: the bounded caches, the backoff retry utility, the      *)
(* code generator, the location resolver and the batch drive sync.         *)
(*                                                                         *)
(* The module holds one group of variables per component and one           *)
(* specification per component (SpecLRU, SpecRetry, ...); a specification  *)
(* holds the variables of the other components at their idle values.       *)
(***************************************************************************)
EXTENDS Integers, Sequences, FiniteSets, TLC

VARIABLES
    \* ---- LRUCache (utils/cache) ----
    lruCache,     \* the Map of the cache, in insertion order: a sequence of [key, value]
    lruMax,       \* maxSize, given to the constructor
    lruHist,      \* history of the operations applied (observer)
    lruLast,      \* what the last operation did (observer)
    \* ---- retryWithBackoff (utils/retry) ----
    rOpts,        \* opts: [maxRetries, baseDelay, maxDelay, isRetryable]
    rPc,          \* "idle" | "call" (awaiting fn()) | "sleep" (awaiting sleep) | "returned" | "thrown"
    rAttempt,     \* the loop variable attempt
    rLastError,   \* lastError
    rOut,         \* the value returned or the error thrown
    rLog,         \* outcome of every invocation of fn, in order (observer)
    rSleeps,      \* the delay of every sleep started, in order (observer)
    \* ---- generateUniqueCode (administrative-divisions) ----
    genName,      \* the argument name
    genExisting,  \* the argument existingCodes
    genPc,        \* "idle" | "call" | "returned"
    genResult,    \* the code returned (<<>> before the call)
    \* ---- getLocationCode (administrative-divisions) ----
    geoCode,        \* the spatial store: localCode of every area (<<>> for SQL NULL)
    locationCache,  \* the module's LRUCache, cacheKey -> LocationInfo
    locProc,        \* per concurrent call: its position and local variables
    locStarted,     \* number of calls started so far
    locDone,        \* the completed calls, in order of completion (observer)
    \* ---- processBatchDriveSync (survey-paddy/service) ----
    sPc,            \* "idle" | "start" | "loop" | "race" | "allSettled" | "excel" | "cycle" | "update" | "returned"
    sN,             \* the invocation is given the ids 1..sN
    sNullProv,      \* the record whose field has provinceName NULL (0: none)
    sNoIdentity,    \* the records whose fullFieldId is empty
    sDrive,         \* googleDrive.isGoogleDriveAvailable()
    sEnv,           \* DRIVE_SYNC_CONCURRENCY as parsed
    sNext,          \* runWithConcurrency: the next item of the for loop
    sExecuting,     \* runWithConcurrency: the Set executing
    sUploading,     \* the workers awaiting uploadPhotosToDrive
    sWoken,         \* a task settled since the loop began to await
    sExcelGroups,   \* the Map excelGroups, groupKey -> ids of its items
    sRecordStatus,  \* the Map recordStatus, id -> {status, error, driveLink}
    sIdx,           \* position of the loop of phase 2 / phase 3
    sResults,       \* results
    sStore,         \* paddy_survey rows: syncStatus, syncError, syncedAt, photoFolderDriveUrl
    sSheets,        \* rows of the spreadsheet of every group on Drive
    sCycles,        \* the calls of syncExcelWithDrive so far: [key, rows, open] (observer)
    sFaults,        \* the external calls that failed (observer)
    sReturn,        \* the value returned ({} before the return)
    \* ---- TTLCache (utils/cache) ----
    ttlCache,       \* the Map of the cache, in insertion order: [key, value: [value, expiresAt]]
    ttlMax,         \* maxSize
    ttlMs,          \* ttlMs
    ttlNow,         \* Date.now()
    ttlJoined,      \* per key, the call at which it last entered the Map (observer)
    ttlSetAt,       \* per key, the time of its last set, -1 if never set (observer)
    ttlOps,         \* number of calls made
    ttlLast,        \* the last call: op, key, the Map before it, its result, the time
    \* ---- scheduler entry points (drive-sync, cron route) ----
    schStore,       \* syncStatus of every paddy_survey row
    schRuns,        \* number of scheduler runs so far
    schLog,         \* per run: the entry point, the ids selected, the store before (observer)
    \* ---- enqueueSubmissionSave (submission queue) ----
    qAvailable,     \* getSubmissionQueue() is not null
    qCall,          \* per call: its position, its variable tempDir, what failed (observer)
    qDisk,          \* the temporary directories present on disk
    qJobs,          \* the jobs added to the queue
    qInline,        \* the calls whose save was started inline, in order
    qReturn,        \* per call: the job id returned ({} before the return)
    \* ---- prepareSubmissionContext: the surveyor ----
    survRows,       \* the surveyor table: [identity, locationCode, surveyorNumber]
    survProc,       \* per concurrent call: its position and local variables
    survStarted,    \* number of calls started so far
    survDone,        \* the completed calls, in order (observer)
    \* ---- the external calls of the batch sync (google-drive) ----
    dcCur,          \* the call in progress: its kind ("none": no call) and the errors of its attempts
    dcDone,          \* the calls that ended: [kind, errors, ok] (observer)
    \* ---- two overlapping invocations writing one spreadsheet ----
    xPc,            \* per invocation: "start" | "downloaded" | "appended" | "uploaded" | "failed" | "done"
    xRows,          \* per invocation: the rows (record ids) of its group
    xBook,          \* per invocation: the workbook in its temporary file
    xSeen,          \* per invocation: the rows of the file when it was downloaded (observer)
    xSheet,         \* the rows of the spreadsheet file on Drive
    xUploads,       \* the invocations whose upload succeeded, in order (observer)
    xStatus,         \* syncStatus of the records of the two groups
    \* ---- getOrCreateFolder (google-drive) under concurrent workers ----
    fDrive,         \* the folders on Drive, in order of creation: [key, id, created]
    fCache,         \* folderCache, the TTLCache cacheKey -> folder id
    fProc,          \* per worker: its position in getOrCreateFolder and its cacheKey
    fDone,           \* the calls that ended, in order: [worker, key, id] (observer)
    \* ---- startDriveSyncCron (cron) ----
    cTask,          \* globalForCron.driveSyncTask: 0 for undefined, else the task
    cScheduled,     \* number of tasks given to cron.schedule so far
    cIsRunning,     \* per task: the variable isRunning of its closure
    cRunning,       \* per task: the runs of syncPendingDriveRecords in progress
    cLog,            \* the calls of startDriveSyncCron and runSync, in order (observer)
    \* ---- the worker of the submission queue ----
    jPhotos,        \* per job: the number of photos stored at enqueue time
    jDir,           \* per job: its temporary directory is on disk
    jPc,            \* per job: "waiting" | "load" | "save" | "cleanup" | "completed" | "failed"
    jAttemptsMade,  \* per job: the attempts started so far
    jThrown,        \* per job: the attempt in progress has thrown
    jLog            \* the attempts, in order of start: [job, attempt, dirPresent] (observer)

lruVars == <<lruCache, lruMax, lruHist, lruLast>>
retryVars == <<rOpts, rPc, rAttempt, rLastError, rOut, rLog, rSleeps>>

genVars == <<genName, genExisting, genPc, genResult>>

locVars == <<geoCode, locationCache, locProc, locStarted, locDone>>

syncVars == <<sPc, sN, sNullProv, sNoIdentity, sDrive, sEnv, sNext, sExecuting, sUploading,
              sWoken, sExcelGroups, sRecordStatus, sIdx, sResults, sStore, sSheets,
              sCycles, sFaults, sReturn>>

ttlVars == <<ttlCache, ttlMax, ttlMs, ttlNow, ttlJoined, ttlSetAt, ttlOps, ttlLast>>

schVars == <<schStore, schRuns, schLog>>

enqVars == <<qAvailable, qCall, qDisk, qJobs, qInline, qReturn>>

survVars == <<survRows, survProc, survStarted, survDone>>

driveVars == <<dcCur, dcDone>>

xlsVars == <<xPc, xRows, xBook, xSeen, xSheet, xUploads, xStatus>>

folderVars == <<fDrive, fCache, fProc, fDone>>

cronVars == <<cTask, cScheduled, cIsRunning, cRunning, cLog>>

jobVars == <<jPhotos, jDir, jPc, jAttemptsMade, jThrown, jLog>>

vars == <<lruVars, retryVars, genVars, locVars, syncVars, ttlVars, schVars, enqVars,
         survVars, driveVars, xlsVars, folderVars, cronVars, jobVars>>

NULL == "null"

(***************************************************************************)
(* Generic helpers on sequences.                                           *)
(***************************************************************************)
Range(s) == {s[i] : i \in 1..Len(s)}

Min2(a, b) == IF a <= b THEN a ELSE b

SetMax(S) == CHOOSE x \in S : \A y \in S : y <= x

(***************************************************************************)
(* LRUCache<K, V>: a JavaScript Map keeps its keys in insertion order, so  *)
(* the cache is a sequence of entries; keys().next() is its head.          *)
(***************************************************************************)
MapKeys(c) == {c[i].key : i \in 1..Len(c)}

MapHas(c, k) == k \in MapKeys(c)

\* Map.get as an option: {} stands for undefined, {v} for the value v.
MapGet(c, k) == {e.value : e \in {x \in Range(c) : x.key = k}}

TheValue(opt) == CHOOSE v \in opt : TRUE

MapDelete(c, k) == SelectSeq(c, LAMBDA e : e.key # k)

\* Map.set: an existing key keeps its position, a new key goes to the end.
MapSet(c, k, v) ==
    IF MapHas(c, k)
    THEN [i \in 1..Len(c) |-> IF c[i].key = k THEN [key |-> k, value |-> v] ELSE c[i]]
    ELSE Append(c, [key |-> k, value |-> v])

\* LRUCache.get: the cache after the call (a hit moves the key to the end).
LRUGetNoPromote(c, k) == c

LRUGet(c, k) ==
    LET value == MapGet(c, k)
    IN  IF value # {}
        THEN MapSet(MapDelete(c, k), k, TheValue(value))
        ELSE c

\* LRUCache.set: delete if present, add to the end, evict the head if over capacity.
LRUSet(c, maxSize, k, v) ==
    LET c1 == IF MapHas(c, k) THEN MapDelete(c, k) ELSE c
        c2 == MapSet(c1, k, v)
    IN  IF Len(c2) > maxSize
        THEN MapDelete(c2, c2[1].key)
        ELSE c2

(***************************************************************************)
(* SpecLRU: an LRUCache under arbitrary sequences of its operations.       *)
(***************************************************************************)
MaxLruKeys == 3
MaxLruCap == 2
MaxLruOps == 4

LruKeys == 1..MaxLruKeys

LruIdle ==
    /\ lruCache = <<>>
    /\ lruMax = 0
    /\ lruHist = <<>>
    /\ lruLast = [op |-> "none"]

LruInit ==
    /\ lruCache = <<>>
    /\ lruMax \in 0..MaxLruCap
    /\ lruHist = <<>>
    /\ lruLast = [op |-> "none"]

\* The position in the history of the most recent get-hit or set of key k (0: none).
LastUse(h, k) ==
    LET uses == {i \in 1..Len(h) : h[i].key = k /\ (h[i].op = "set" \/ (h[i].op = "get" /\ h[i].hit))}
    IN  IF uses = {} THEN 0 ELSE SetMax(uses)

\* Among the keys S, the one whose most recent get-hit or set is the oldest.
LeastRecentlyUsed(h, S) == CHOOSE k \in S : \A j \in S : LastUse(h, k) <= LastUse(h, j)

LruDoGet(k) ==
    /\ Len(lruHist) < MaxLruOps
    /\ lruCache' = LRUGet(lruCache, k)
    /\ lruHist' = Append(lruHist, [op |-> "get", key |-> k, hit |-> MapGet(lruCache, k) # {}])
    /\ lruLast' = [op |-> "get", key |-> k, ret |-> MapGet(lruCache, k),
                   before |-> MapKeys(lruCache), removed |-> MapKeys(lruCache) \ MapKeys(lruCache')]
    /\ UNCHANGED lruMax

\* The value stored is the number of the operation, so every set stores a fresh value.
LruDoSet(k) ==
    /\ Len(lruHist) < MaxLruOps
    /\ lruCache' = LRUSet(lruCache, lruMax, k, Len(lruHist) + 1)
    /\ lruHist' = Append(lruHist, [op |-> "set", key |-> k, hit |-> FALSE])
    /\ lruLast' = [op |-> "set", key |-> k, ret |-> {},
                   before |-> MapKeys(lruCache) \cup {k},
                   removed |-> (MapKeys(lruCache) \cup {k}) \ MapKeys(lruCache')]
    /\ UNCHANGED lruMax


\* C10: an LRUCache of capacity C never holds more than C entries; a set that
\* pushes it over capacity removes exactly one entry, the key whose most recent
\* get-hit or set is the oldest (a set within capacity and a get remove nothing);
\* inserting C+1 distinct keys with no get evicts exactly the first-inserted key.
LruDistinctSets(h) ==
    /\ \A i \in 1..Len(h) : h[i].op = "set"
    /\ \A i, j \in 1..Len(h) : i # j => h[i].key # h[j].key

C10_LruEvictsLeastRecentlyUsed ==
    /\ Len(lruCache) <= lruMax
    /\ Cardinality(MapKeys(lruCache)) = Len(lruCache)
    /\ lruLast.op = "get" => lruLast.removed = {}
    /\ lruLast.op = "set" =>
          IF Cardinality(lruLast.before) > lruMax
          THEN lruLast.removed = {LeastRecentlyUsed(lruHist, lruLast.before)}
          ELSE lruLast.removed = {}
    /\ (Len(lruHist) = lruMax + 1 /\ LruDistinctSets(lruHist)) =>
          /\ lruLast.removed = {lruHist[1].key}
          /\ MapKeys(lruCache) = {lruHist[i].key : i \in 2..Len(lruHist)}

\* A set evicted a key after an earlier get-hit had promoted the first-inserted key.
C10_Witness ==
    /\ lruMax = 2
    /\ lruLast.op = "set"
    /\ lruLast.removed # {}
    /\ \E i \in 1..Len(lruHist) : lruHist[i].op = "get" /\ lruHist[i].hit /\ lruHist[i].key = lruHist[1].key
    /\ lruHist[1].key \in MapKeys(lruCache)

(***************************************************************************)
(* retryWithBackoff (utils/retry.ts).  An error is a record: whether it is *)
(* an Error instance, the phrases its lower-cased message contains, and    *)
(* the number of the invocation that threw it.                             *)
(***************************************************************************)
DEFAULT_maxRetries == 3
DEFAULT_baseDelay == 1000
DEFAULT_maxDelay == 30000

NetworkPhrases == {"network", "timeout", "econnrefused", "enotfound", "fetch failed"}
RateLimitPhrases == {"rate limit", "too many requests", "quota exceeded"}

IsNetworkError(error) == error.isError /\ error.phrases \cap NetworkPhrases # {}

IsRateLimitError(error) == error.isError /\ error.phrases \cap RateLimitPhrases # {}

IsRetryableError(error) == IsNetworkError(error) \/ IsRateLimitError(error)

\* opts.isRetryable: the default () => true, or isRetryableError.
IsRetryable(fn, error) == IF fn = "default" THEN TRUE ELSE IsRetryableError(error)

CalculateDelayUncapped(attempt, baseDelay, maxDelay) == baseDelay * 2 ^ attempt

CalculateDelay(attempt, baseDelay, maxDelay) ==
    LET delay == baseDelay * 2 ^ attempt
    IN  Min2(delay, maxDelay)

\* retry.ts line 88: no retry once the attempts are exhausted.
RetryExhaustedLate(attempt, maxRetries) == attempt > maxRetries

RetryExhausted(attempt, maxRetries) == attempt >= maxRetries

MaxRetriesBound == 3

\* What fn() may throw: network, timeout and quota errors, a permanent error, a non-Error value.
ThrownPhrases == {{"network"}, {"timeout"}, {"quota exceeded"}, {}}

ThrownErrors(n) ==
    {[isError |-> TRUE, phrases |-> ph, at |-> n] : ph \in ThrownPhrases}
        \cup {[isError |-> FALSE, phrases |-> {}, at |-> n]}

RetryIdle ==
    /\ rOpts = [maxRetries |-> DEFAULT_maxRetries, baseDelay |-> DEFAULT_baseDelay,
                maxDelay |-> DEFAULT_maxDelay, isRetryable |-> "default"]
    /\ rPc = "idle"
    /\ rAttempt = 0
    /\ rLastError = NULL
    /\ rOut = NULL
    /\ rLog = <<>>
    /\ rSleeps = <<>>

\* The call retryWithBackoff(fn, options), options merged over DEFAULT_OPTIONS.
RetryInit ==
    /\ rOpts \in [maxRetries : 0..MaxRetriesBound,
                  baseDelay : {DEFAULT_baseDelay, 500},
                  maxDelay : {DEFAULT_maxDelay, 3000, 1000},
                  isRetryable : {"default", "isRetryableError"}]
    /\ rPc = "call"
    /\ rAttempt = 0
    /\ rLastError = NULL
    /\ rOut = NULL
    /\ rLog = <<>>
    /\ rSleeps = <<>>

\* fn() resolves: the result is returned at once.
RetryCallSucceeds ==
    /\ rPc = "call"
    /\ LET result == [ok |-> TRUE, at |-> Len(rLog) + 1]
       IN  /\ rLog' = Append(rLog, result)
           /\ rOut' = result
    /\ rPc' = "returned"
    /\ UNCHANGED <<rOpts, rAttempt, rLastError, rSleeps>>

\* fn() rejects with error: thrown on if not retryable, given up when exhausted, else a sleep starts.
RetryCallFails(error) ==
    /\ rPc = "call"
    /\ rLog' = Append(rLog, [ok |-> FALSE, error |-> error])
    /\ rLastError' = error
    /\ IF ~IsRetryable(rOpts.isRetryable, error)
       THEN /\ rPc' = "thrown"
            /\ rOut' = error
            /\ UNCHANGED rSleeps
       ELSE IF RetryExhausted(rAttempt, rOpts.maxRetries)
       THEN /\ rPc' = "thrown"
            /\ rOut' = rLastError'
            /\ UNCHANGED rSleeps
       ELSE /\ rPc' = "sleep"
            /\ rSleeps' = Append(rSleeps, CalculateDelay(rAttempt, rOpts.baseDelay, rOpts.maxDelay))
            /\ UNCHANGED rOut
    /\ UNCHANGED <<rOpts, rAttempt>>

\* The sleep ends: attempt++, and the loop runs again while attempt <= maxRetries.
RetrySleepEnds ==
    /\ rPc = "sleep"
    /\ rAttempt' = rAttempt + 1
    /\ IF rAttempt + 1 <= rOpts.maxRetries
       THEN rPc' = "call" /\ UNCHANGED rOut
       ELSE rPc' = "thrown" /\ rOut' = rLastError
    /\ UNCHANGED <<rOpts, rLastError, rLog, rSleeps>>


(***************************************************************************)
(* Code generator (administrative-divisions.ts).  A string is a sequence   *)
(* of one-character strings; a code is such a sequence too.                *)
(***************************************************************************)
LowerLetters == <<"a", "b", "c", "d", "e", "f", "g", "h", "i", "j", "k", "l", "m",
                  "n", "o", "p", "q", "r", "s", "t", "u", "v", "w", "x", "y", "z">>
UpperLetters == <<"A", "B", "C", "D", "E", "F", "G", "H", "I", "J", "K", "L", "M",
                  "N", "O", "P", "Q", "R", "S", "T", "U", "V", "W", "X", "Y", "Z">>
Digits36 == <<"0", "1", "2", "3", "4", "5", "6", "7", "8", "9">> \o LowerLetters

IndexIn(seq, c) == IF c \in Range(seq) THEN CHOOSE i \in 1..Len(seq) : seq[i] = c ELSE 0

IsAlpha(c) == c \in Range(LowerLetters) \/ c \in Range(UpperLetters)

IsSpace(c) == c = " "

ToUpperChar(c) == IF c \in Range(LowerLetters) THEN UpperLetters[IndexIn(LowerLetters, c)] ELSE c

ToLowerChar(c) == IF c \in Range(UpperLetters) THEN LowerLetters[IndexIn(UpperLetters, c)] ELSE c

ToUpperCase(s) == [i \in 1..Len(s) |-> ToUpperChar(s[i])]

ToLowerCase(s) == [i \in 1..Len(s) |-> ToLowerChar(s[i])]

\* String.charCodeAt for the characters of the names used (ASCII).
CharCodeAt(c) ==
    IF c \in Range(LowerLetters) THEN 96 + IndexIn(LowerLetters, c)
    ELSE IF c \in Range(UpperLetters) THEN 64 + IndexIn(UpperLetters, c)
    ELSE IF c = " " THEN 32
    ELSE IF c = "'" THEN 39
    ELSE IF c = "-" THEN 45
    ELSE 47 + IndexIn(Digits36, c)

Vowels == {"a", "e", "i", "o", "u"}

IsVowel(c) == ToLowerChar(c) \in Vowels

Substring(s, from, to) == SubSeq(s, from + 1, Min2(to, Len(s)))

EndsWith(s, suf) ==
    /\ Len(suf) <= Len(s)
    /\ SubSeq(s, Len(s) - Len(suf) + 1, Len(s)) = suf

RECURSIVE TrimStart(_)
TrimStart(s) == IF s # <<>> /\ IsSpace(s[1]) THEN TrimStart(Tail(s)) ELSE s

RECURSIVE TrimEnd(_)
TrimEnd(s) == IF s # <<>> /\ IsSpace(s[Len(s)]) THEN TrimEnd(SubSeq(s, 1, Len(s) - 1)) ELSE s

Trim(s) == TrimEnd(TrimStart(s))

\* replace(/[^a-zA-Z\s]/g, "")
RemoveNonAlpha(s) == SelectSeq(s, LAMBDA c : IsAlpha(c) \/ IsSpace(c))

\* replace(/\s/g, "")
RemoveSpaces(s) == SelectSeq(s, LAMBDA c : ~IsSpace(c))

RegionTypeWords == {<<"p", "r", "o", "v", "i", "n", "c", "e">>, <<"d", "i", "s", "t", "r", "i", "c", "t">>, <<"c", "o", "m", "m", "u", "n", "e">>, <<"s", "a", "n", "g", "k", "a", "t">>}

\* replace(/\s+(province|district|commune|sangkat)$/i, ""): the type word at the end and
\* the whole run of white space before it (at least one) are removed.
StripRegionType(s) ==
    LET hits == {w \in RegionTypeWords :
                    /\ Len(w) < Len(s)
                    /\ EndsWith(ToLowerCase(s), w)
                    /\ IsSpace(s[Len(s) - Len(w)])}
    IN  IF hits = {} THEN s
        ELSE LET w == CHOOSE x \in hits : TRUE
             IN  TrimEnd(SubSeq(s, 1, Len(s) - Len(w)))

\* split(/\s+/): the pieces between runs of white space, empty pieces included.
RECURSIVE SplitWhitespace(_)
SplitWhitespace(s) ==
    IF \A i \in 1..Len(s) : ~IsSpace(s[i]) THEN <<s>>
    ELSE LET i == CHOOSE x \in 1..Len(s) : IsSpace(s[x]) /\ \A y \in 1..(x - 1) : ~IsSpace(s[y])
         IN  <<SubSeq(s, 1, i - 1)>> \o SplitWhitespace(TrimStart(SubSeq(s, i, Len(s))))

KHMER_NUMBERS_sorted ==
    << [suffix |-> <<"T", "i", " ", "P", "r", "a", "m", " ", "M", "u", "o", "y">>, numeral |-> <<"6">>],
       [suffix |-> <<"T", "i", " ", "P", "r", "a", "m", " ", "B", "u", "o", "n">>, numeral |-> <<"9">>],
       [suffix |-> <<"T", "i", " ", "P", "r", "a", "m", " ", "P", "i", "r">>, numeral |-> <<"7">>],
       [suffix |-> <<"T", "i", " ", "P", "r", "a", "m", " ", "B", "e", "i">>, numeral |-> <<"8">>],
       [suffix |-> <<"T", "i", " ", "M", "u", "o", "y">>, numeral |-> <<"1">>],
       [suffix |-> <<"T", "i", " ", "B", "u", "o", "n">>, numeral |-> <<"4">>],
       [suffix |-> <<"T", "i", " ", "P", "r", "a", "m">>, numeral |-> <<"5">>],
       [suffix |-> <<"T", "i", " ", "P", "i", "r">>, numeral |-> <<"2">>],
       [suffix |-> <<"T", "i", " ", "B", "e", "i">>, numeral |-> <<"3">>],
       [suffix |-> <<"T", "i", " ", "D", "o", "p">>, numeral |-> <<"1", "0">>] >>

\* padEnd(3, "X")
RECURSIVE PadEnd(_, _, _)
PadEnd(s, n, c) == IF Len(s) >= n THEN s ELSE PadEnd(Append(s, c), n, c)

\* The loop "for i from 1 while letters.length < limit: push word[i] if keep(word[i])".
RECURSIVE PushWhile(_, _, _, _, _)
PushWhile(letters, word, i, limit, wantVowel) ==
    IF i > Len(word) \/ Len(letters) >= limit THEN letters
    ELSE PushWhile(IF IsVowel(word[i]) = wantVowel
                   THEN Append(letters, ToUpperChar(word[i])) ELSE letters,
                   word, i + 1, limit, wantVowel)

\* The third letter of a two-word name: the last consonant of the second word (from
\* its end down to its second character), else its first consonant, else its last letter.
LastWordLetter(lastWord) ==
    LET cons == {i \in 2..Len(lastWord) : ~IsVowel(lastWord[i])}
        l1 == IF cons = {} THEN "X" ELSE ToUpperChar(lastWord[SetMax(cons)])
        l2 == IF l1 = "X" /\ cons # {}
              THEN ToUpperChar(lastWord[CHOOSE i \in cons : \A j \in cons : i <= j])
              ELSE l1
    IN  IF l2 = "X" /\ Len(lastWord) > 1 THEN ToUpperChar(lastWord[Len(lastWord)]) ELSE l2

GenerateBaseCode(name) ==
    LET found == {i \in 1..Len(KHMER_NUMBERS_sorted) : EndsWith(name, KHMER_NUMBERS_sorted[i].suffix)}
        first == IF found = {} THEN 0 ELSE CHOOSE i \in found : \A j \in found : i <= j
        suffix == IF first = 0 THEN <<>> ELSE KHMER_NUMBERS_sorted[first].numeral
        baseName == IF first = 0 THEN name
                    ELSE Trim(SubSeq(name, 1, Len(name) - Len(KHMER_NUMBERS_sorted[first].suffix)))
        cleanName == Trim(RemoveNonAlpha(StripRegionType(baseName)))
        words == SelectSeq(SplitWhitespace(cleanName), LAMBDA w : Len(w) > 0)
    IN  IF Len(words) = 0
        THEN (IF suffix # <<>> THEN <<"X", "X">> \o suffix ELSE <<"X", "X", "X">>)
        ELSE IF suffix # <<>>
        THEN (IF Len(words) >= 2
              THEN <<ToUpperChar(words[1][1]), ToUpperChar(words[2][1])>> \o suffix
              ELSE PadEnd(PushWhile(<<ToUpperChar(words[1][1])>>, words[1], 2, 2, FALSE), 2, "X")
                       \o suffix)
        ELSE IF Len(RemoveSpaces(cleanName)) <= 3
        THEN PadEnd(ToUpperCase(RemoveSpaces(cleanName)), 3, "X")
        ELSE IF Len(words) = 1
        THEN LET word == words[1]
                 consonants == PushWhile(<<ToUpperChar(word[1])>>, word, 2, 3, FALSE)
                 withVowels == PushWhile(consonants, word, 2, 3, TRUE)
             IN  SubSeq(PadEnd(withVowels, 3, "X"), 1, 3)
        ELSE IF Len(words) >= 3
        THEN <<ToUpperChar(words[1][1]), ToUpperChar(words[2][1]), ToUpperChar(words[3][1])>>
        ELSE <<ToUpperChar(words[1][1]), ToUpperChar(words[2][1]), LastWordLetter(words[2])>>

(***************************************************************************)
(* hashString: a 32-bit hash, kept as two 16-bit halves [hi, lo] so that   *)
(* (hash << 5) - hash + char wraps modulo 2^32 as in JavaScript.           *)
(***************************************************************************)
HashStep(h, code) ==
    LET lo == h.lo * 31 + code
        hi == h.hi * 31 + (lo \div 65536)
    IN  [hi |-> hi % 65536, lo |-> lo % 65536]

RECURSIVE HashFold(_, _, _)
HashFold(h, str, i) == IF i > Len(str) THEN h ELSE HashFold(HashStep(h, CharCodeAt(str[i])), str, i + 1)

RECURSIVE ToBase36(_)
ToBase36(n) == IF n < 36 THEN <<Digits36[n + 1]>> ELSE Append(ToBase36(n \div 36), Digits36[(n % 36) + 1])

\* Math.abs(hash).toString(36).toUpperCase(); |-2^31| = 2^31 is "zik0zk" in base 36.
HashString(str) ==
    LET h == HashFold([hi |-> 0, lo |-> 0], str, 1)
    IN  IF h.hi < 32768 THEN ToUpperCase(ToBase36(h.hi * 65536 + h.lo))
        ELSE IF h.hi = 32768 /\ h.lo = 0 THEN <<"Z", "I", "K", "0", "Z", "K">>
        ELSE ToUpperCase(ToBase36((65535 - h.hi) * 65536 + (65536 - h.lo)))

DigitChar(d) == Digits36[d + 1]

SuffixCandidateWholeBase(baseCode, suffix) == Append(baseCode, DigitChar(suffix))

\* The candidates of the numeric-suffix loop, suffix = 2..9.
SuffixCandidate(baseCode, suffix) == Append(Substring(baseCode, 0, 2), DigitChar(suffix))

\* The candidate of words i and j of the pairwise loop (<<>> when the pair is skipped).
PairCandidate(words, i, j) ==
    IF i # j /\ words[i] # <<>> /\ words[j] # <<>>
    THEN ToUpperCase(<<words[i][1], words[j][1], IF Len(words[i]) >= 2 THEN words[i][2] ELSE "X">>)
    ELSE <<>>

\* The pairs (i, j) in the order of the nested loops.
PairOrder(n) == [k \in 1..(n * n) |-> <<((k - 1) \div n) + 1, ((k - 1) % n) + 1>>]

HashFallback(name, existingCodes) == ToUpperCase(Substring(HashString(name), 0, 3))

GenerateUniqueCode(name, existingCodes) ==
    LET baseCode == GenerateBaseCode(name)
        freeSuffix == {x \in 2..9 : SuffixCandidate(baseCode, x) \notin existingCodes}
        words == SplitWhitespace(RemoveNonAlpha(name))
        order == PairOrder(Len(words))
        freePair == {k \in 1..Len(order) :
                        LET c == PairCandidate(words, order[k][1], order[k][2])
                        IN  Len(c) = 3 /\ c \notin existingCodes}
    IN  IF baseCode \notin existingCodes THEN baseCode
        ELSE IF freeSuffix # {}
        THEN SuffixCandidate(baseCode, CHOOSE x \in freeSuffix : \A y \in freeSuffix : x <= y)
        ELSE IF freePair # {}
        THEN LET k == CHOOSE x \in freePair : \A y \in freePair : x <= y
             IN  PairCandidate(words, order[k][1], order[k][2])
        ELSE HashFallback(name, existingCodes)

(***************************************************************************)
(* SpecGen: generateUniqueCode applied to a region name and a set of codes *)
(* already in use.  The set is drawn from the codes the name can collide   *)
(* with: its base code, the numeric-suffix and pairwise candidates and the *)
(* hash code.                                                              *)
(***************************************************************************)
Name_Takeo == <<"T", "a", "k", "e", "o">>
Name_TaKhmau == <<"T", "a", " ", "K", "h", "m", "a", "u">>
Name_TaKhmao == <<"T", "a", " ", "K", "h", "m", "a", "o">>
Name_ChbarTiPir == <<"C", "h", "b", "a", "r", " ", "T", "i", " ", "P", "i", "r">>

GenNames == {Name_Takeo, Name_TaKhmau, Name_ChbarTiPir}

CollidingCodes(name) ==
    LET words == SplitWhitespace(RemoveNonAlpha(name))
    IN  ({GenerateBaseCode(name), ToUpperCase(Substring(HashString(name), 0, 3))}
            \cup {SuffixCandidate(GenerateBaseCode(name), x) : x \in 2..9}
            \cup {PairCandidate(words, i, j) : i, j \in 1..Len(words)}) \ {<<>>}

GenIdle ==
    /\ genName = <<>>
    /\ genExisting = {}
    /\ genPc = "idle"
    /\ genResult = <<>>

GenInit ==
    /\ genName \in GenNames
    /\ genExisting \in SUBSET CollidingCodes(genName)
    /\ genPc = "call"
    /\ genResult = <<>>

GenCall ==
    /\ genPc = "call"
    /\ genPc' = "returned"
    /\ genResult' = GenerateUniqueCode(genName, genExisting)
    /\ UNCHANGED <<genName, genExisting>>

(***************************************************************************)
(* Location resolver: getLocationCode and ensure{Province,District,        *)
(* Commune}Code.  Coordinates are integers in units of 1e-7 degree, so     *)
(* that rounding to 6 decimals is visible.  Concurrent calls interleave at *)
(* their awaits: the containment query, the read of the existing codes and *)
(* the UPDATE of each level.                                               *)
(***************************************************************************)
MaxLocCalls == 2
LocCacheSize == 1

\* Two calls may be in progress at a time.
LocProcs == {1, 2}

Name_Bati == <<"B", "a", "t", "i">>

\* The areas of the store: id -> level (1 province, 2 district, 3 commune) and nameEn.
Areas == {"p1", "d1", "c1", "c2"}
AreaLevel(a) == IF a = "p1" THEN 1 ELSE IF a = "d1" THEN 2 ELSE 3
AreaName(a) ==
    IF a = "p1" THEN Name_Takeo
    ELSE IF a = "d1" THEN Name_Bati
    ELSE IF a = "c1" THEN Name_TaKhmau
    ELSE Name_TaKhmao

\* The coordinates submitted: three points of commune c1 (the first two round to the
\* same 6-decimal key), one of commune c2, one outside every polygon.
Coord_A == [lat |-> 115560000, lng |-> 1049280000]
Coord_A4 == [lat |-> 115560004, lng |-> 1049280000]
Coord_A10 == [lat |-> 115560010, lng |-> 1049280000]
Coord_B == [lat |-> 115700000, lng |-> 1049280000]
Coord_Out == [lat |-> 0, lng |-> 0]

\* The values of a JavaScript number that are not finite, as numbers outside the range
\* of the coordinates.
NaN == 2000000000
PosInfinity == 2000000001
NegInfinity == -2000000001

\* Number.isFinite
IsFiniteNumber(x) == x \notin {NaN, PosInfinity, NegInfinity}

\* Two calls with a coordinate that is not a finite number.
Coord_NaN == [lat |-> NaN, lng |-> 1049280000]
Coord_Inf == [lat |-> 115560000, lng |-> PosInfinity]

Coords == {Coord_A, Coord_A4, Coord_A10, Coord_B, Coord_Out, Coord_NaN, Coord_Inf}

\* ST_Contains(c.geoboundary, point): the commune holding the point ("" for none).
CommuneAt(coord) ==
    IF coord \in {Coord_A, Coord_A4, Coord_A10} THEN "c1"
    ELSE IF coord = Coord_B THEN "c2"
    ELSE ""

Round6Identity(x) == x

\* Math.round(x * 1000000) / 1000000, on 1e-7 degree units (halves round up); NaN and
\* the infinities come out as they went in.
Round6(x) == IF IsFiniteNumber(x) THEN ((x + 5) \div 10) * 10 ELSE x

CacheKey(coord) == <<Round6(coord.lat), Round6(coord.lng)>>

\* The row of the containment query: ids, codes and names of the three levels.
QueryRow(codes, coord) ==
    LET c == CommuneAt(coord)
    IN  [ids |-> <<"p1", "d1", c>>,
         codes |-> <<codes["p1"], codes["d1"], codes[c]>>]

GetExistingCodesNone(codes, level) == {}

\* SELECT "localCode" FROM geometry.<level> WHERE "localCode" IS NOT NULL
GetExistingCodes(codes, level) ==
    {codes[a] : a \in {x \in Areas : AreaLevel(x) = level /\ codes[x] # <<>>}}

\* UPDATE geometry.<level> SET "localCode" = code WHERE id = id
UpdateLocalCode(codes, id, code) == [codes EXCEPT ![id] = code]

LocIdleProc == [pc |-> "idle"]

LocIdle ==
    /\ geoCode = [a \in Areas |-> <<>>]
    /\ locationCache = <<>>
    /\ locProc = [p \in LocProcs |-> LocIdleProc]
    /\ locStarted = 0
    /\ locDone = <<>>

LocInit == LocIdle

\* The call ends: its outcome is recorded and the process is free again.
LocComplete(p, call, outcome, info, fromCache) ==
    /\ locProc' = [locProc EXCEPT ![p] = LocIdleProc]
    /\ locDone' = Append(locDone, [coord |-> call.coord, key |-> call.key, outcome |-> outcome,
                                   info |-> info, fromCache |-> fromCache, ops |-> call.ops,
                                   after |-> call.after])

\* From level `from` on, the codes the row already holds are taken over; the result is
\* the first level whose code is missing (4 when none is).
RECURSIVE FirstMissing(_, _)
FirstMissing(row, from) ==
    IF from > 3 THEN 4
    ELSE IF row.codes[from] # <<>> THEN FirstMissing(row, from + 1)
    ELSE from

\* The codes of the call after the levels before `upTo` have been taken from the row.
TakeOver(call, from, upTo) ==
    [i \in 1..3 |-> IF i >= from /\ i < upTo THEN call.row.codes[i] ELSE call.codes[i]]

\* Lines 130-147: compose the location code, cache it and return.
LocFinish(p, call, codes) ==
    LET info == [locationCode |-> codes,
                 provinceName |-> AreaName(call.row.ids[1]),
                 districtName |-> AreaName(call.row.ids[2]),
                 communeName |-> AreaName(call.row.ids[3])]
    IN  /\ locationCache' = LRUSet(locationCache, LocCacheSize, call.key, info)
        /\ LocComplete(p, call, "ok", info, FALSE)

\* Continue after the query or after the UPDATE of a level: ensure the next levels.
LocContinue(p, call, from) ==
    LET level == FirstMissing(call.row, from)
        codes == TakeOver(call, from, level)
    IN  IF level = 4
        THEN LocFinish(p, call, codes)
        ELSE /\ locProc' = [locProc EXCEPT ![p] = [call EXCEPT !.pc = "read", !.level = level, !.codes = codes]]
             /\ UNCHANGED <<locationCache, locDone>>

\* getLocationCode(latitude, longitude) up to its first await: the cache lookup.
\* (Calls are interchangeable: a new call takes the lowest free slot.)
LocStart(p, coord) ==
    /\ locProc[p].pc = "idle"
    /\ \A q \in 1..(p - 1) : locProc[q].pc # "idle"
    /\ locStarted < MaxLocCalls
    /\ locStarted' = locStarted + 1
    /\ LET key == CacheKey(coord)
           cached == MapGet(locationCache, key)
           call == [pc |-> "query", coord |-> coord, key |-> key, ops |-> 0, level |-> 0,
                    row |-> [ids |-> <<>>, codes |-> <<>>], codes |-> <<<<>>, <<>>, <<>>>>,
                    pending |-> <<>>, after |-> Len(locDone)]
       IN  /\ locationCache' = LRUGet(locationCache, key)
           /\ IF cached # {}
              THEN LocComplete(p, call, "ok", TheValue(cached), TRUE)
              ELSE locProc' = [locProc EXCEPT ![p] = call] /\ UNCHANGED locDone
    /\ UNCHANGED geoCode

\* The containment query returns: no row throws, a row starts ensuring the codes.
LocQuery(p) ==
    /\ locProc[p].pc = "query"
    /\ LET call == [locProc[p] EXCEPT !.ops = @ + 1]
       IN  IF CommuneAt(call.coord) = ""
           THEN LocComplete(p, call, "not_found", NULL, FALSE) /\ UNCHANGED locationCache
           ELSE LocContinue(p, [call EXCEPT !.row = QueryRow(geoCode, call.coord)], 1)
    /\ UNCHANGED <<geoCode, locStarted>>

\* ensure<Level>Code: the existing codes are read and the new code is generated.
LocReadExisting(p) ==
    /\ locProc[p].pc = "read"
    /\ LET call == locProc[p]
           existingCodes == GetExistingCodes(geoCode, call.level)
           code == GenerateUniqueCode(AreaName(call.row.ids[call.level]), existingCodes)
       IN  locProc' = [locProc EXCEPT ![p] = [call EXCEPT !.pc = "write", !.pending = code, !.ops = @ + 1]]
    /\ UNCHANGED <<geoCode, locationCache, locStarted, locDone>>

\* ensure<Level>Code: the UPDATE stores the code; the next level follows.
LocWrite(p) ==
    /\ locProc[p].pc = "write"
    /\ LET call == locProc[p]
           done == [call EXCEPT !.ops = @ + 1, !.codes[call.level] = call.pending]
       IN  /\ geoCode' = UpdateLocalCode(geoCode, call.row.ids[call.level], call.pending)
           /\ LocContinue(p, done, call.level + 1)
    /\ UNCHANGED locStarted

LocStoreFailsCaching(p) ==
    /\ locProc[p].pc \in {"query", "read", "write"}
    /\ LocComplete(p, [locProc[p] EXCEPT !.ops = @ + 1], "store_error", NULL, FALSE)
    /\ locationCache' = LRUSet(locationCache, LocCacheSize, locProc[p].key, NULL)
    /\ UNCHANGED <<geoCode, locStarted>>

\* A statement sent to the store fails: the error leaves getLocationCode, nothing is cached.
LocStoreFails(p) ==
    /\ locProc[p].pc \in {"query", "read", "write"}
    /\ LocComplete(p, [locProc[p] EXCEPT !.ops = @ + 1], "store_error", NULL, FALSE)
    /\ UNCHANGED <<geoCode, locationCache, locStarted>>

(***************************************************************************)
(* processBatchDriveSync (survey-paddy/service): the batch Drive sync of   *)
(* the cron job, with runWithConcurrency and syncExcelWithDrive.           *)
(***************************************************************************)
MaxBatch == 3

\* The ids handed to one invocation are 1..sN; the record data comes from the store.
RecordIds == 1..MaxBatch

\* f."provinceName" of the field of a record; sNullProv is the record whose field
\* has no province name (0 when every field has one).
ProvinceName(id, nullProv) ==
    IF id = nullProv THEN NULL
    ELSE IF id % 2 = 1 THEN "Takeo" ELSE "Kandal"

\* s."photoUrls": records with an odd id carry one photo, the others none.
PhotoUrls(id) == IF id % 2 = 1 THEN <<"photo">> ELSE <<>>

\* Values of Number.parseInt(process.env.DRIVE_SYNC_CONCURRENCY ?? "2", 10):
\* {} stands for NaN, {k} for the integer k.
EnvConcurrencyValues == {{}, {0}, {1}, {3}}

\* const concurrency = Number.isFinite(DRIVE_SYNC_CONCURRENCY) && DRIVE_SYNC_CONCURRENCY > 0 ? ... : 2
DRIVE_SYNC_default == 2

SyncConcurrency(parsed) ==
    IF parsed # {} /\ TheValue(parsed) > 0 THEN TheValue(parsed) ELSE DRIVE_SYNC_default

\* runWithConcurrency: Number.isFinite(limit) && limit > 0 ? Math.floor(limit) : 1
Concurrency(limit) == IF limit > 0 THEN limit ELSE 1

LimitReachedStrict(size, concurrency) == size > concurrency

\* if (executing.size >= concurrency) await Promise.race(executing)
LimitReached(size, concurrency) == size >= concurrency

\* Error messages are kept as the sequence of their parts.
FieldIdentityError == <<"Field identity not found">>

UploadToDriveError(error) == <<"Failed to upload to Drive: ", error>>

ExcelSyncFailed(message) == <<"Excel sync failed: ">> \o message

\* uploadPhotosToDrive: the folder link, "" when nothing is uploaded or the folder
\* could not be created (every error is caught inside).
UploadPhotosToDrive(id, provinceName, driveAvailable, folderCreated) ==
    IF ~driveAvailable \/ PhotoUrls(id) = <<>> \/ provinceName = NULL
    THEN ""
    ELSE IF folderCreated THEN "https://drive.google.com/drive/folders/id" ELSE ""

\* buildExcelRowGroup: {} for null, else the group key folder/filename. Every record
\* of the model has the same surveyor location code and visit date, so the key
\* varies with the province name only.
BuildExcelRowGroup(provinceName) ==
    IF provinceName = NULL THEN {} ELSE {provinceName}

\* Outcomes of the external calls of one syncExcelWithDrive.
ExcelOutcomes == {"ok", "downloadError", "noWorksheet", "uploadFails"}

\* syncExcelWithDrive: the rows of the file on Drive afterwards and the error thrown
\* ({} when it returns). A failed download is reported as found = false, so the
\* workbook is rebuilt from the template.
SyncExcelWithDrive(rowsOnDrive, rowsData, outcome) ==
    CASE outcome = "ok" -> [rows |-> rowsOnDrive \o rowsData, thrown |-> {}]
      [] outcome = "downloadError" -> [rows |-> rowsData, thrown |-> {}]
      [] outcome = "noWorksheet" ->
            [rows |-> rowsOnDrive, thrown |-> {<<"No worksheet found in workbook">>}]
      [] outcome = "uploadFails" ->
            [rows |-> rowsOnDrive, thrown |-> {UploadToDriveError("Drive error")}]

SyncedStatus(driveLink) == [status |-> "synced", error |-> <<>>, driveLink |-> driveLink]

FailedStatus(error) == [status |-> "failed", error |-> error, driveLink |-> ""]

MarkFirstFailed(rs, items, message) ==
    MapSet(rs, items[1], FailedStatus(ExcelSyncFailed(message)))

\* for (const item of items) recordStatus.set(item.record.id, {status: "failed", ...})
RECURSIVE MarkGroupFailed(_, _, _)
MarkGroupFailed(rs, items, message) ==
    IF items = <<>> THEN rs
    ELSE MarkGroupFailed(MapSet(rs, items[1], FailedStatus(ExcelSyncFailed(message))),
                         Tail(items), message)

PendingRow == [syncStatus |-> "pending", syncError |-> <<>>, syncedAt |-> {},
               photoFolderDriveUrl |-> NULL]

UpdateSyncedNoDate(row, statusInfo) ==
    [row EXCEPT !.syncStatus = "synced",
                !.photoFolderDriveUrl = IF statusInfo.driveLink # "" THEN statusInfo.driveLink ELSE NULL]

\* paddySurvey.update({data: {syncStatus: "synced", syncedAt: new Date(), photoFolderDriveUrl}})
UpdateSynced(row, statusInfo) ==
    [row EXCEPT !.syncStatus = "synced", !.syncedAt = {"now"},
                !.photoFolderDriveUrl = IF statusInfo.driveLink # "" THEN statusInfo.driveLink ELSE NULL]

\* paddySurvey.update({data: {syncStatus: "failed", syncError: statusInfo.error}})
UpdateFailed(row, statusInfo) ==
    [row EXCEPT !.syncStatus = "failed", !.syncError = statusInfo.error]

AfterUpdateErrorAbort(idx, size) == size + 1

\* The catch inside the loop of phase 3: the loop goes on with the next entry.
AfterUpdateError(idx, size) == idx + 1

SyncIdle ==
    /\ sPc = "idle" /\ sN = 0 /\ sNullProv = 0 /\ sNoIdentity = {}
    /\ sDrive = FALSE /\ sEnv = {}
    /\ sNext = 1 /\ sExecuting = {} /\ sUploading = {} /\ sWoken = FALSE
    /\ sExcelGroups = <<>> /\ sRecordStatus = <<>> /\ sIdx = 1
    /\ sResults = [success |-> 0, failed |-> 0]
    /\ sStore = [id \in RecordIds |-> PendingRow]
    /\ sSheets = [g \in {"Takeo", "Kandal"} |-> <<>>]
    /\ sCycles = <<>>
    /\ sFaults = [fetch |-> FALSE, excel |-> {}, download |-> {}, update |-> {}]
    /\ sReturn = {}

\* The state when processBatchDriveSync(paddyIds) is called: sN pending records, the
\* file of the Takeo group already on Drive with one row (of record 0).
SyncInit ==
    /\ sPc = "start"
    /\ sN \in 0..MaxBatch
    /\ sNullProv \in 0..sN
    /\ sNoIdentity \in SUBSET (1..sN)
    /\ sDrive \in BOOLEAN
    /\ sEnv \in EnvConcurrencyValues
    /\ sNext = 1 /\ sExecuting = {} /\ sUploading = {} /\ sWoken = FALSE
    /\ sExcelGroups = <<>> /\ sRecordStatus = <<>> /\ sIdx = 1
    /\ sResults = [success |-> 0, failed |-> 0]
    /\ sStore = [id \in RecordIds |-> PendingRow]
    /\ sSheets = [g \in {"Takeo", "Kandal"} |-> IF g = "Takeo" THEN <<0>> ELSE <<>>]
    /\ sCycles = <<>>
    /\ sFaults = [fetch |-> FALSE, excel |-> {}, download |-> {}, update |-> {}]
    /\ sReturn = {}

\* Entry of processBatchDriveSync up to the start of phase 1: the early return on an
\* empty id list, and the $queryRaw fetch, whose failure lands in the outer catch.
SyncBegin ==
    /\ sPc = "start"
    /\ \/ /\ sN = 0
          /\ sPc' = "returned"
          /\ sReturn' = {[success |-> 0, failed |-> 0]}
          /\ UNCHANGED sFaults
       \/ /\ sN > 0
          /\ sPc' = "loop"
          /\ UNCHANGED <<sReturn, sFaults>>
       \/ /\ sN > 0
          /\ sFaults' = [sFaults EXCEPT !.fetch = TRUE]
          /\ sPc' = "returned"
          /\ sReturn' = {sResults}
    /\ UNCHANGED <<sN, sNullProv, sNoIdentity, sDrive, sEnv, sNext, sExecuting, sUploading,
                   sWoken, sExcelGroups, sRecordStatus, sIdx, sResults, sStore, sSheets, sCycles>>

\* One iteration of the for loop of runWithConcurrency: the task is created, which
\* runs the worker up to its first await (the field identity check throws before
\* it, into the worker's own catch), then the size test.
SyncStartWorker ==
    /\ sPc = "loop"
    /\ sNext <= sN
    /\ LET id == sNext
           noIdentity == id \in sNoIdentity
           executing == sExecuting \cup {id}
       IN  /\ sRecordStatus' = IF noIdentity
                               THEN MapSet(sRecordStatus, id, FailedStatus(FieldIdentityError))
                               ELSE sRecordStatus
           /\ sUploading' = IF noIdentity THEN sUploading ELSE sUploading \cup {id}
           /\ sExecuting' = executing
           /\ sNext' = id + 1
           /\ sPc' = IF LimitReached(Cardinality(executing), Concurrency(SyncConcurrency(sEnv)))
                     THEN "race" ELSE "loop"
    /\ sWoken' = FALSE
    /\ UNCHANGED <<sN, sNullProv, sNoIdentity, sDrive, sEnv, sExcelGroups, sIdx, sResults,
                   sStore, sSheets, sCycles, sFaults, sReturn>>

\* A worker runs from the await of uploadPhotosToDrive to its end, its task settles
\* and cleanup removes it from executing. Workers only run while the loop awaits.
SyncWorkerFinishes(id, folderCreated) ==
    /\ sPc \in {"race", "allSettled"}
    /\ id \in sExecuting
    /\ IF id \in sUploading
       THEN LET provinceName == ProvinceName(id, sNullProv)
                driveFolderLink == UploadPhotosToDrive(id, provinceName, sDrive, folderCreated)
                rowGroup == IF sDrive THEN BuildExcelRowGroup(provinceName) ELSE {}
                groupKey == TheValue(rowGroup)
                items == IF MapHas(sExcelGroups, groupKey)
                         THEN TheValue(MapGet(sExcelGroups, groupKey)) ELSE <<>>
            IN  /\ sExcelGroups' = IF rowGroup # {}
                                   THEN MapSet(sExcelGroups, groupKey, Append(items, id))
                                   ELSE sExcelGroups
                /\ sRecordStatus' = MapSet(sRecordStatus, id, SyncedStatus(driveFolderLink))
       ELSE /\ folderCreated
            /\ UNCHANGED <<sExcelGroups, sRecordStatus>>
    /\ sUploading' = sUploading \ {id}
    /\ sExecuting' = sExecuting \ {id}
    /\ sWoken' = TRUE
    /\ UNCHANGED <<sPc, sN, sNullProv, sNoIdentity, sDrive, sEnv, sNext, sIdx, sResults,
                   sStore, sSheets, sCycles, sFaults, sReturn>>

\* await Promise.race(executing) resumes once a task of the set has settled.
SyncRaceResumes ==
    /\ sPc = "race"
    /\ sWoken
    /\ sPc' = "loop"
    /\ UNCHANGED <<sN, sNullProv, sNoIdentity, sDrive, sEnv, sNext, sExecuting, sUploading,
                   sWoken, sExcelGroups, sRecordStatus, sIdx, sResults, sStore, sSheets, sCycles,
                   sFaults, sReturn>>

\* The loop is over: await Promise.allSettled(executing).
SyncLoopEnds ==
    /\ sPc = "loop"
    /\ sNext > sN
    /\ sPc' = "allSettled"
    /\ UNCHANGED <<sN, sNullProv, sNoIdentity, sDrive, sEnv, sNext, sExecuting, sUploading,
                   sWoken, sExcelGroups, sRecordStatus, sIdx, sResults, sStore, sSheets, sCycles,
                   sFaults, sReturn>>

SyncAllSettledNoWait ==
    /\ sPc = "allSettled"
    /\ sPc' = "excel"
    /\ sIdx' = 1
    /\ UNCHANGED <<sN, sNullProv, sNoIdentity, sDrive, sEnv, sNext, sExecuting, sUploading,
                   sWoken, sExcelGroups, sRecordStatus, sResults, sStore, sSheets, sCycles,
                   sFaults, sReturn>>

\* runWithConcurrency returns when every task has settled; phase 2 starts.
SyncAllSettled ==
    /\ sPc = "allSettled"
    /\ sExecuting = {}
    /\ sPc' = "excel"
    /\ sIdx' = 1
    /\ UNCHANGED <<sN, sNullProv, sNoIdentity, sDrive, sEnv, sNext, sExecuting, sUploading,
                   sWoken, sExcelGroups, sRecordStatus, sResults, sStore, sSheets, sCycles,
                   sFaults, sReturn>>

SyncExcelOpenNoAwait ==
    /\ sPc = "excel"
    /\ sIdx <= Len(sExcelGroups)
    /\ sCycles' = Append(sCycles, [key |-> sExcelGroups[sIdx].key,
                                   rows |-> sExcelGroups[sIdx].value, open |-> TRUE])
    /\ sIdx' = sIdx + 1
    /\ UNCHANGED <<sPc, sN, sNullProv, sNoIdentity, sDrive, sEnv, sNext, sExecuting,
                   sUploading, sWoken, sExcelGroups, sRecordStatus, sResults, sStore,
                   sSheets, sFaults, sReturn>>

\* Phase 2, one group of excelGroups: syncExcelWithDrive(filename, folderPath, rows)
\* is called with the rows of the items of the group, and the loop awaits it.
SyncExcelOpen ==
    /\ sPc = "excel"
    /\ sIdx <= Len(sExcelGroups)
    /\ sCycles' = Append(sCycles, [key |-> sExcelGroups[sIdx].key,
                                   rows |-> sExcelGroups[sIdx].value, open |-> TRUE])
    /\ sPc' = "cycle"
    /\ UNCHANGED <<sN, sNullProv, sNoIdentity, sDrive, sEnv, sNext, sExecuting,
                   sUploading, sWoken, sExcelGroups, sRecordStatus, sIdx, sResults,
                   sStore, sSheets, sFaults, sReturn>>

\* The call of syncExcelWithDrive of the group ends: the file on Drive is as the
\* call leaves it, and on a throw every item of the group is marked failed.
SyncExcelGroup(outcome) ==
    /\ sPc = "cycle"
    /\ LET groupKey == sCycles[Len(sCycles)].key
           items == sCycles[Len(sCycles)].rows
           result == SyncExcelWithDrive(sSheets[groupKey], items, outcome)
       IN  /\ sSheets' = [sSheets EXCEPT ![groupKey] = result.rows]
           /\ sRecordStatus' = IF result.thrown # {}
                               THEN MarkGroupFailed(sRecordStatus, items, TheValue(result.thrown))
                               ELSE sRecordStatus
           /\ sFaults' = [sFaults EXCEPT
                            !.excel = IF result.thrown # {}
                                      THEN @ \cup {<<groupKey, TheValue(result.thrown)>>} ELSE @,
                            !.download = IF outcome = "downloadError"
                                         THEN @ \cup {groupKey} ELSE @]
    /\ sCycles' = [sCycles EXCEPT ![Len(sCycles)].open = FALSE]
    /\ sPc' = "excel"
    /\ sIdx' = sIdx + 1
    /\ UNCHANGED <<sN, sNullProv, sNoIdentity, sDrive, sEnv, sNext, sExecuting,
                   sUploading, sWoken, sExcelGroups, sResults, sStore, sReturn>>

\* Every group is written: phase 3 starts.
SyncExcelDone ==
    /\ sPc = "excel"
    /\ sIdx > Len(sExcelGroups)
    /\ sPc' = "update"
    /\ sIdx' = 1
    /\ UNCHANGED <<sN, sNullProv, sNoIdentity, sDrive, sEnv, sNext, sExecuting, sUploading,
                   sWoken, sExcelGroups, sRecordStatus, sResults, sStore, sSheets, sCycles,
                   sFaults, sReturn>>

\* Phase 3, one entry of recordStatus: the status update of the record and the tally.
SyncUpdateRecord(updateOk) ==
    /\ sPc = "update"
    /\ sIdx <= Len(sRecordStatus)
    /\ LET id == sRecordStatus[sIdx].key
           statusInfo == sRecordStatus[sIdx].value
       IN  IF updateOk
           THEN /\ sStore' = [sStore EXCEPT ![id] =
                                 IF statusInfo.status = "synced"
                                 THEN UpdateSynced(@, statusInfo)
                                 ELSE UpdateFailed(@, statusInfo)]
                /\ sResults' = IF statusInfo.status = "synced"
                               THEN [sResults EXCEPT !.success = @ + 1]
                               ELSE [sResults EXCEPT !.failed = @ + 1]
                /\ sIdx' = sIdx + 1
                /\ UNCHANGED sFaults
           ELSE /\ sFaults' = [sFaults EXCEPT !.update = @ \cup {id}]
                /\ sIdx' = AfterUpdateError(sIdx, Len(sRecordStatus))
                /\ UNCHANGED <<sStore, sResults>>
    /\ UNCHANGED <<sPc, sN, sNullProv, sNoIdentity, sDrive, sEnv, sNext, sExecuting,
                   sUploading, sWoken, sExcelGroups, sRecordStatus, sSheets, sCycles, sReturn>>

\* return results
SyncReturn ==
    /\ sPc = "update"
    /\ sIdx > Len(sRecordStatus)
    /\ sPc' = "returned"
    /\ sReturn' = {sResults}
    /\ UNCHANGED <<sN, sNullProv, sNoIdentity, sDrive, sEnv, sNext, sExecuting, sUploading,
                   sWoken, sExcelGroups, sRecordStatus, sIdx, sResults, sStore, sSheets, sCycles,
                   sFaults>>

(***************************************************************************)
(* TTLCache<K, V> (utils/cache): a Map of {value, expiresAt} in insertion  *)
(* order, with a clock standing for Date.now().                            *)
(***************************************************************************)
MaxTtlKeys == 3
MaxTtlCap == 2
MaxTtlTime == 3
MaxTtlOps == 4

TtlKeys == 1..MaxTtlKeys

\* The ttlMs values tried.
TtlValues == {1, 2}

TTLExpiredNever(now, expiresAt) == FALSE

\* if (Date.now() > item.expiresAt)
TTLExpired(now, expiresAt) == now > expiresAt

\* TTLCache.get / TTLCache.has: the cache after the call (an expired entry is deleted).
TTLAfterLookup(c, k, now) ==
    LET item == MapGet(c, k)
    IN  IF item # {} /\ TTLExpired(now, TheValue(item).expiresAt)
        THEN MapDelete(c, k)
        ELSE c

\* TTLCache.get: the value returned, {} for undefined.
TTLGet(c, k, now) ==
    LET item == MapGet(c, k)
    IN  IF item = {} THEN {}
        ELSE IF TTLExpired(now, TheValue(item).expiresAt) THEN {}
        ELSE {TheValue(item).value}

\* TTLCache.has
TTLHas(c, k, now) ==
    LET item == MapGet(c, k)
    IN  IF item = {} THEN FALSE
        ELSE IF TTLExpired(now, TheValue(item).expiresAt) THEN FALSE
        ELSE TRUE

TTLSetRefreshing(c, maxSize, ttl, k, v, now) ==
    LET c1 == MapSet(MapDelete(c, k), k, [value |-> v, expiresAt |-> now + ttl])
    IN  IF Len(c1) > maxSize THEN MapDelete(c1, c1[1].key) ELSE c1

\* TTLCache.set: Map.set (a key already present keeps its place), then the first key
\* of the Map is deleted when the size exceeds maxSize.
TTLSet(c, maxSize, ttl, k, v, now) ==
    LET c1 == MapSet(c, k, [value |-> v, expiresAt |-> now + ttl])
    IN  IF Len(c1) > maxSize THEN MapDelete(c1, c1[1].key) ELSE c1

TtlNoOp == [op |-> "none", key |-> 0, before |-> <<>>, result |-> {}, now |-> 0]

TtlIdle ==
    /\ ttlCache = <<>> /\ ttlMax = 0 /\ ttlMs = 0 /\ ttlNow = 0
    /\ ttlJoined = [k \in TtlKeys |-> 0] /\ ttlSetAt = [k \in TtlKeys |-> -1]
    /\ ttlOps = MaxTtlOps /\ ttlLast = TtlNoOp

\* new TTLCache(maxSize, ttlMs)
TtlInit ==
    /\ ttlCache = <<>>
    /\ ttlMax \in 0..MaxTtlCap
    /\ ttlMs \in TtlValues
    /\ ttlNow = 0
    /\ ttlJoined = [k \in TtlKeys |-> 0]
    /\ ttlSetAt = [k \in TtlKeys |-> -1]
    /\ ttlOps = 0
    /\ ttlLast = TtlNoOp

\* Time passes between two calls.
TtlTick ==
    /\ ttlOps < MaxTtlOps
    /\ ttlNow < MaxTtlTime
    /\ ttlNow' = ttlNow + 1
    /\ UNCHANGED <<ttlCache, ttlMax, ttlMs, ttlJoined, ttlSetAt, ttlOps, ttlLast>>

TtlDoGet(k) ==
    /\ ttlOps < MaxTtlOps
    /\ ttlCache' = TTLAfterLookup(ttlCache, k, ttlNow)
    /\ ttlLast' = [op |-> "get", key |-> k, before |-> ttlCache,
                   result |-> TTLGet(ttlCache, k, ttlNow), now |-> ttlNow]
    /\ ttlOps' = ttlOps + 1
    /\ UNCHANGED <<ttlMax, ttlMs, ttlNow, ttlJoined, ttlSetAt>>

TtlDoHas(k) ==
    /\ ttlOps < MaxTtlOps
    /\ ttlCache' = TTLAfterLookup(ttlCache, k, ttlNow)
    /\ ttlLast' = [op |-> "has", key |-> k, before |-> ttlCache,
                   result |-> IF TTLHas(ttlCache, k, ttlNow) THEN {TRUE} ELSE {},
                   now |-> ttlNow]
    /\ ttlOps' = ttlOps + 1
    /\ UNCHANGED <<ttlMax, ttlMs, ttlNow, ttlJoined, ttlSetAt>>

\* set(k, v); the value stored is the number of the call. ttlJoined keeps the call at
\* which each key entered the Map, ttlSetAt the time of the last set of each key.
TtlDoSet(k) ==
    /\ ttlOps < MaxTtlOps
    /\ ttlCache' = TTLSet(ttlCache, ttlMax, ttlMs, k, ttlOps + 1, ttlNow)
    /\ ttlJoined' = IF MapHas(ttlCache, k) THEN ttlJoined
                    ELSE [ttlJoined EXCEPT ![k] = ttlOps + 1]
    /\ ttlSetAt' = [ttlSetAt EXCEPT ![k] = ttlNow]
    /\ ttlLast' = [op |-> "set", key |-> k, before |-> ttlCache, result |-> {},
                   now |-> ttlNow]
    /\ ttlOps' = ttlOps + 1
    /\ UNCHANGED <<ttlMax, ttlMs, ttlNow>>

(***************************************************************************)
(* The scheduler entry points: syncPendingDriveRecords (drive-sync) and    *)
(* the cron GET route. Both select records and hand their ids to           *)
(* processBatchDriveSync, whose effect on a record is one of the three     *)
(* outcomes established for it above: synced, failed, or left as it was.   *)
(***************************************************************************)
MaxSchedRecords == 2
MaxSchedRuns == 2

\* The paddy_survey rows, numbered in the order of createdAt.
SchedRecords == 1..MaxSchedRecords

\* config.sync.batchSize: getOptionalEnvNumber("SYNC_BATCH_SIZE", 10)
SYNC_BATCH_SIZE_default == 10

\* The take of the cron route.
CRON_take == 10

\* options?.batchSize: {} for undefined, {n} for the number n.
BatchSizeOptions == {{}, {0}, {1}, {2}}

\* resolveBatchSize
ResolveBatchSize(batchSize) ==
    IF batchSize = {} THEN SYNC_BATCH_SIZE_default
    ELSE IF TheValue(batchSize) <= 0 THEN SYNC_BATCH_SIZE_default
    ELSE TheValue(batchSize)

\* The ids of S in ascending order.
RECURSIVE SortedIds(_)
SortedIds(S) ==
    IF S = {} THEN <<>>
    ELSE LET least == CHOOSE x \in S : \A y \in S : x <= y
         IN  <<least>> \o SortedIds(S \ {least})

FindPendingNewestFirst(store, take) ==
    LET matching == SortedIds({id \in DOMAIN store : store[id] = "pending"})
    IN  SubSeq(matching, Len(matching) - Min2(take, Len(matching)) + 1, Len(matching))

\* findMany({where: {syncStatus: "pending"}, take, orderBy: {createdAt: "asc"}})
FindPending(store, take) ==
    LET matching == SortedIds({id \in DOMAIN store : store[id] = "pending"})
    IN  SubSeq(matching, 1, Min2(take, Len(matching)))

\* What processBatchDriveSync may do to each record it is given.
BatchOutcomes(ids) == [Range(ids) -> {"synced", "failed", "unchanged"}]

AllBatchOutcomes == UNION {[S -> {"synced", "failed", "unchanged"}] : S \in SUBSET SchedRecords}

\* The store after processBatchDriveSync(paddyIds) with the given outcome per record.
ProcessBatchDriveSync(store, paddyIds, outcome) ==
    [id \in DOMAIN store |->
        IF id \in Range(paddyIds) /\ outcome[id] # "unchanged" THEN outcome[id] ELSE store[id]]

SchedIdle ==
    /\ schStore = [id \in SchedRecords |-> "pending"]
    /\ schRuns = MaxSchedRuns
    /\ schLog = <<>>

\* Every record has been submitted and awaits its first synchronization.
SchedInit ==
    /\ schStore = [id \in SchedRecords |-> "pending"]
    /\ schRuns = 0
    /\ schLog = <<>>

\* One run of syncPendingDriveRecords(options).
SyncPendingDriveRecords(batchSize, outcome) ==
    /\ schRuns < MaxSchedRuns
    /\ LET take == ResolveBatchSize(batchSize)
           paddyIds == FindPending(schStore, take)
       IN  /\ outcome \in BatchOutcomes(paddyIds)
           /\ schStore' = IF paddyIds = <<>> THEN schStore
                          ELSE ProcessBatchDriveSync(schStore, paddyIds, outcome)
           /\ schLog' = Append(schLog, [by |-> "syncPendingDriveRecords", take |-> take,
                                         ids |-> paddyIds, before |-> schStore])
    /\ schRuns' = schRuns + 1

\* One authorized GET of the cron route.
CronGet(outcome) ==
    /\ schRuns < MaxSchedRuns
    /\ LET paddyIds == FindPending(schStore, CRON_take)
       IN  /\ outcome \in BatchOutcomes(paddyIds)
           /\ schStore' = ProcessBatchDriveSync(schStore, paddyIds, outcome)
           /\ schLog' = Append(schLog, [by |-> "GET", take |-> CRON_take, ids |-> paddyIds,
                                         before |-> schStore])
    /\ schRuns' = schRuns + 1

(***************************************************************************)
(* enqueueSubmissionSave (submission queue): the job is added to the queue *)
(* after its photos are written to a temporary directory; the save runs    *)
(* inline when the queue is missing or the enqueue fails.                  *)
(***************************************************************************)
MaxEnqueueCalls == 3

EnqueueCalls == 1..MaxEnqueueCalls

\* Outcomes of persistPhotos: it returns, it fails before mkdtemp has made the
\* directory, or a writeFile fails after the directory was made.
PersistOutcomes == {"ok", "failsBeforeDir", "writeFails"}

\* The directory mkdtemp makes for a call.
TempDirOf(c) == c

\* randomUUID() of a call, and the id the queue gives to its job.
JobIdOf(c) == <<"uuid", c>>

QueueJobId(c) == <<"job", c>>

\* cleanupTempDir
CleanupTempDir(disk, tempDir) == disk \ {tempDir}

EnqIdleCall == [pc |-> "idle", tempDir |-> {}, fault |-> "none"]

EnqIdle ==
    /\ qAvailable = FALSE
    /\ qCall = [c \in EnqueueCalls |-> EnqIdleCall]
    /\ qDisk = {} /\ qJobs = <<>> /\ qInline = <<>>
    /\ qReturn = [c \in EnqueueCalls |-> {}]

\* No call made yet; getSubmissionQueue() gives a queue or null for the whole run.
EnqInit ==
    /\ qAvailable \in BOOLEAN
    /\ qCall = [c \in EnqueueCalls |-> [pc |-> "new", tempDir |-> {}, fault |-> "none"]]
    /\ qDisk = {} /\ qJobs = <<>> /\ qInline = <<>>
    /\ qReturn = [c \in EnqueueCalls |-> {}]

\* The call up to its first await: without a queue the save is started inline and the
\* uuid is returned.
EnqStart(c) ==
    /\ qCall[c].pc = "new"
    /\ IF ~qAvailable
       THEN /\ qInline' = Append(qInline, c)
            /\ qReturn' = [qReturn EXCEPT ![c] = {JobIdOf(c)}]
            /\ qCall' = [qCall EXCEPT ![c].pc = "returned", ![c].fault = "noQueue"]
       ELSE /\ qCall' = [qCall EXCEPT ![c].pc = "persist"]
            /\ UNCHANGED <<qInline, qReturn>>
    /\ UNCHANGED <<qAvailable, qDisk, qJobs>>

\* await persistPhotos(photos); tempDir is assigned only when it returns. On a throw
\* the catch block runs: cleanup if tempDir is set, inline save, return of the uuid.
EnqPersist(c, outcome) ==
    /\ qCall[c].pc = "persist"
    /\ IF outcome = "ok"
       THEN /\ qDisk' = qDisk \cup {TempDirOf(c)}
            /\ qCall' = [qCall EXCEPT ![c].pc = "add", ![c].tempDir = {TempDirOf(c)}]
            /\ UNCHANGED <<qInline, qReturn>>
       ELSE /\ qDisk' = IF outcome = "writeFails" THEN qDisk \cup {TempDirOf(c)} ELSE qDisk
            /\ qInline' = Append(qInline, c)
            /\ qReturn' = [qReturn EXCEPT ![c] = {JobIdOf(c)}]
            /\ qCall' = [qCall EXCEPT ![c].pc = "returned", ![c].fault = outcome]
    /\ UNCHANGED <<qAvailable, qJobs>>

\* await queue.add(...): the job id is returned, or the catch block runs.
EnqAdd(c, added) ==
    /\ qCall[c].pc = "add"
    /\ IF added
       THEN /\ qJobs' = Append(qJobs, [call |-> c, tempDir |-> TheValue(qCall[c].tempDir)])
            /\ qReturn' = [qReturn EXCEPT ![c] = {QueueJobId(c)}]
            /\ qCall' = [qCall EXCEPT ![c].pc = "returned"]
            /\ UNCHANGED <<qDisk, qInline>>
       ELSE /\ qDisk' = IF qCall[c].tempDir # {}
                        THEN CleanupTempDir(qDisk, TheValue(qCall[c].tempDir)) ELSE qDisk
            /\ qInline' = Append(qInline, c)
            /\ qReturn' = [qReturn EXCEPT ![c] = {JobIdOf(c)}]
            /\ qCall' = [qCall EXCEPT ![c].pc = "returned", ![c].fault = "addFails"]
            /\ UNCHANGED qJobs
    /\ UNCHANGED qAvailable

(***************************************************************************)
(* prepareSubmissionContext (survey-paddy/service): find or create the     *)
(* surveyor of the authenticated identity.                                 *)
(***************************************************************************)
MaxSurvCalls == 3

\* Two calls may be in progress at a time.
SurvProcs == {1, 2}

\* (provider, provider user id) pairs, and the location codes the GPS resolves to.
Identities == {"telegram:1", "telegram:2", "telegram:3"}

GpsLocationCodes == {"TKA-BTI-TKM", "TKA-BTI-TK2"}

\* `S${String(surveyorCount + 1).padStart(2, "0")}`, as "S" and the decimal digits
\* (counts stay below 99).
NewSurveyorNumber(surveyorCount) ==
    <<"S", (surveyorCount + 1) \div 10, (surveyorCount + 1) % 10>>

\* surveyor.findFirst({where: {providerName, providerUserId}})
FindSurveyor(rows, identity) == {r \in Range(rows) : r.identity = identity}

\* surveyor.count({where: {locationCode}})
CountSurveyors(rows, locationCode) ==
    Cardinality({i \in 1..Len(rows) : rows[i].locationCode = locationCode})

\* The unique index surveyor_providerName_providerUserId_key.
ViolatesIdentityKey(rows, identity) == \E r \in Range(rows) : r.identity = identity

SurvIdleProc == [pc |-> "idle"]

SurvIdle ==
    /\ survRows = <<>>
    /\ survProc = [p \in SurvProcs |-> SurvIdleProc]
    /\ survStarted = MaxSurvCalls
    /\ survDone = <<>>

\* An empty surveyor table.
SurvInit ==
    /\ survRows = <<>>
    /\ survProc = [p \in SurvProcs |-> SurvIdleProc]
    /\ survStarted = 0
    /\ survDone = <<>>

\* A call starts: getLocationCode has resolved the GPS position to gpsLocationCode.
SurvStart(p, identity, gpsLocationCode) ==
    /\ survStarted < MaxSurvCalls
    /\ survProc[p].pc = "idle"
    /\ \A q \in SurvProcs : q < p => survProc[q].pc # "idle"
    /\ survProc' = [survProc EXCEPT ![p] = [pc |-> "find", identity |-> identity,
                                            gpsLocationCode |-> gpsLocationCode]]
    /\ survStarted' = survStarted + 1
    /\ UNCHANGED <<survRows, survDone>>

\* await surveyor.findFirst(...): an existing surveyor ends the search.
SurvFind(p) ==
    /\ survProc[p].pc = "find"
    /\ LET found == FindSurveyor(survRows, survProc[p].identity)
       IN  IF found # {}
           THEN /\ survDone' = Append(survDone, [identity |-> survProc[p].identity,
                                                 outcome |-> "found",
                                                 surveyor |-> TheValue(found)])
                /\ survProc' = [survProc EXCEPT ![p] = SurvIdleProc]
           ELSE /\ survProc' = [survProc EXCEPT ![p].pc = "count"]
                /\ UNCHANGED survDone
    /\ UNCHANGED <<survRows, survStarted>>

\* await surveyor.count(...)
SurvCount(p) ==
    /\ survProc[p].pc = "count"
    /\ survProc' = [survProc EXCEPT ![p] =
                       [pc |-> "create", identity |-> survProc[p].identity,
                        gpsLocationCode |-> survProc[p].gpsLocationCode,
                        surveyorCount |->
                            CountSurveyors(survRows, survProc[p].gpsLocationCode)]]
    /\ UNCHANGED <<survRows, survStarted, survDone>>

\* await surveyor.create(...): the insert, refused by the unique index when a row of
\* the identity exists by now.
SurvCreate(p) ==
    /\ survProc[p].pc = "create"
    /\ LET row == [identity |-> survProc[p].identity,
                   locationCode |-> survProc[p].gpsLocationCode,
                   surveyorNumber |-> NewSurveyorNumber(survProc[p].surveyorCount)]
       IN  IF ViolatesIdentityKey(survRows, survProc[p].identity)
           THEN /\ survDone' = Append(survDone, [identity |-> survProc[p].identity,
                                                 outcome |-> "uniqueViolation",
                                                 surveyor |-> row])
                /\ UNCHANGED survRows
           ELSE /\ survRows' = Append(survRows, row)
                /\ survDone' = Append(survDone, [identity |-> survProc[p].identity,
                                                 outcome |-> "created", surveyor |-> row])
    /\ survProc' = [survProc EXCEPT ![p] = SurvIdleProc]
    /\ UNCHANGED survStarted

(***************************************************************************)
(* The external calls of the batch sync (google-drive). getOrCreateFolder  *)
(* makes its folder search and its folder creation inside retryWithBackoff *)
(* with isRetryableError; uploadFile, uploadExcel and downloadFile call    *)
(* the client directly, inside a try/catch that reports the error.         *)
(***************************************************************************)
MaxDriveCalls == 2

\* driveConfig.retryAttempts: getOptionalEnvNumber("GOOGLE_DRIVE_RETRY_ATTEMPTS", 3)
DRIVE_retryAttempts == 3

\* files.list and files.create of getOrCreateFolder, files.create of uploadFile,
\* files.list of uploadExcel and downloadFile, files.get of downloadFile,
\* files.update / files.create of uploadExcel.
DriveCallKinds ==
    {"folderSearch", "folderCreate", "photoUpload", "fileSearch", "download", "excelUpload"}

\* The calls made as retryWithBackoff(() => client.files...., {maxRetries, isRetryable}).
DriveCallWrapped(kind) == kind \in {"folderSearch", "folderCreate"}

\* After the failure of attempt number `attempt` (from 0): is the call made again?
DriveCallRetries(kind, attempt, error) ==
    /\ DriveCallWrapped(kind)
    /\ ~RetryExhausted(attempt, DRIVE_retryAttempts)
    /\ IsRetryable("isRetryableError", error)

DriveNoCall == [kind |-> "none", errors |-> <<>>]

DriveIdle == dcCur = DriveNoCall /\ dcDone = <<>>

DriveInit == dcCur = DriveNoCall /\ dcDone = <<>>

\* The sync reaches one of its external calls.
DriveCallStart(kind) ==
    /\ dcCur.kind = "none"
    /\ Len(dcDone) < MaxDriveCalls
    /\ dcCur' = [kind |-> kind, errors |-> <<>>]
    /\ UNCHANGED dcDone

\* The request is answered.
DriveCallSucceeds ==
    /\ dcCur.kind # "none"
    /\ dcDone' = Append(dcDone, [kind |-> dcCur.kind, errors |-> dcCur.errors, ok |-> TRUE])
    /\ dcCur' = DriveNoCall

\* The request throws: retryWithBackoff sleeps and calls again, or the error leaves
\* the call (rethrown by retryWithBackoff, or caught and reported by the caller).
DriveCallFails(error) ==
    /\ dcCur.kind # "none"
    /\ LET errors == Append(dcCur.errors, error)
       IN  IF DriveCallRetries(dcCur.kind, Len(dcCur.errors), error)
           THEN /\ dcCur' = [dcCur EXCEPT !.errors = errors]
                /\ UNCHANGED dcDone
           ELSE /\ dcDone' = Append(dcDone, [kind |-> dcCur.kind, errors |-> errors, ok |-> FALSE])
                /\ dcCur' = DriveNoCall

(***************************************************************************)
(* Two invocations of processBatchDriveSync that overlap (the cron run in  *)
(* the process and the GET of the cron route), each in phase 2 with a      *)
(* group of the same destination file: syncExcelWithDrive downloads the    *)
(* file, appends the rows in a temporary copy, and uploadExcel replaces    *)
(* the content of the file on Drive by the copy.                           *)
(***************************************************************************)
MaxXlsRows == 2

XlsInvocations == {1, 2}

\* The records of the group of each invocation: 1.. for the first, 11.. for the second.
XlsGroupRows(p) ==
    {[i \in 1..n |-> (p - 1) * 10 + i] : n \in 1..MaxXlsRows}

XlsRecords == UNION {Range(r) : r \in XlsGroupRows(1) \cup XlsGroupRows(2)}

XlsIdle ==
    /\ xPc = [p \in XlsInvocations |-> "done"]
    /\ xRows = [p \in XlsInvocations |-> <<>>]
    /\ xBook = [p \in XlsInvocations |-> <<>>]
    /\ xSeen = [p \in XlsInvocations |-> <<>>]
    /\ xSheet = <<>>
    /\ xUploads = <<>>
    /\ xStatus = [id \in XlsRecords |-> "pending"]

\* Both invocations have prepared their group; the file exists on Drive with the row
\* of an earlier record (0), or does not exist yet.
XlsInit ==
    /\ xPc = [p \in XlsInvocations |-> "start"]
    /\ xRows \in [XlsInvocations -> XlsGroupRows(1) \cup XlsGroupRows(2)]
    /\ \A p \in XlsInvocations : xRows[p] \in XlsGroupRows(p)
    /\ xBook = [p \in XlsInvocations |-> <<>>]
    /\ xSeen = [p \in XlsInvocations |-> <<>>]
    /\ xSheet \in {<<>>, <<0>>}
    /\ xUploads = <<>>
    /\ xStatus = [id \in XlsRecords |-> "pending"]

\* googleDrive.downloadFile: the file is copied to tempPath (a file that is not there
\* gives the template, which has no data row).
XlsDownload(p) ==
    /\ xPc[p] = "start"
    /\ xBook' = [xBook EXCEPT ![p] = xSheet]
    /\ xSeen' = [xSeen EXCEPT ![p] = xSheet]
    /\ xPc' = [xPc EXCEPT ![p] = "downloaded"]
    /\ UNCHANGED <<xRows, xSheet, xUploads, xStatus>>

\* The rows are written after the last data row and the workbook is saved to tempPath.
XlsAppend(p) ==
    /\ xPc[p] = "downloaded"
    /\ xBook' = [xBook EXCEPT ![p] = @ \o xRows[p]]
    /\ xPc' = [xPc EXCEPT ![p] = "appended"]
    /\ UNCHANGED <<xRows, xSeen, xSheet, xUploads, xStatus>>

XlsUploadMerging(p, ok) ==
    /\ xPc[p] = "appended"
    /\ xSheet' = IF ok THEN xSheet \o xRows[p] ELSE xSheet
    /\ xUploads' = IF ok THEN Append(xUploads, p) ELSE xUploads
    /\ xPc' = [xPc EXCEPT ![p] = IF ok THEN "uploaded" ELSE "failed"]
    /\ UNCHANGED <<xRows, xBook, xSeen, xStatus>>

\* googleDrive.uploadExcel: files.update puts the content of tempPath in place of the
\* content of the file; a failure makes syncExcelWithDrive throw.
XlsUpload(p, ok) ==
    /\ xPc[p] = "appended"
    /\ xSheet' = IF ok THEN xBook[p] ELSE xSheet
    /\ xUploads' = IF ok THEN Append(xUploads, p) ELSE xUploads
    /\ xPc' = [xPc EXCEPT ![p] = IF ok THEN "uploaded" ELSE "failed"]
    /\ UNCHANGED <<xRows, xBook, xSeen, xStatus>>

\* Phase 3 of the invocation: the records of the group are marked synced, or failed
\* when the write of the group threw.
XlsUpdateStatus(p) ==
    /\ xPc[p] \in {"uploaded", "failed"}
    /\ xStatus' = [id \in XlsRecords |->
                      IF id \in Range(xRows[p])
                      THEN (IF xPc[p] = "uploaded" THEN "synced" ELSE "failed")
                      ELSE xStatus[id]]
    /\ xPc' = [xPc EXCEPT ![p] = "done"]
    /\ UNCHANGED <<xRows, xBook, xSeen, xSheet, xUploads>>

(***************************************************************************)
(* getOrCreateFolder (google-drive), called by the record workers of one   *)
(* invocation through createFolderPath: cache lookup, folder search,       *)
(* folder creation, cache update, with an await at each request.           *)
(***************************************************************************)
MaxFolderWorkers == 2

\* driveConfig.folderCacheSize and driveConfig.folderCacheTTL
DRIVE_folderCacheSize == 1000
DRIVE_folderCacheTTL == 300000

FolderWorkers == 1..MaxFolderWorkers

\* cacheKey = `${parentId}/${folderName}`: the province folder and the data folder.
FolderKeys == {"root/Takeo", "root/Takeo - Data"}

\* Date.now() during the calls (they last far less than the TTL).
FolderNow == 0

FolderIdleProc == [pc |-> "idle", key |-> ""]

FolderIdle ==
    /\ fDrive = <<>>
    /\ fCache = <<>>
    /\ fProc = [w \in FolderWorkers |-> [pc |-> "done", key |-> ""]]
    /\ fDone = <<>>

\* Nothing is cached; the data folder may exist on Drive already.
FolderInit ==
    /\ fDrive \in {<<>>, <<[key |-> "root/Takeo - Data", id |-> 1, created |-> FALSE]>>}
    /\ fCache = <<>>
    /\ fProc = [w \in FolderWorkers |-> FolderIdleProc]
    /\ fDone = <<>>

\* files.list with the query of the folder: the ids of the folders of that name and parent.
FolderList(drive, key) == SelectSeq(drive, LAMBDA f : f.key = key)

FolderReturn(w, key, id) ==
    /\ fProc' = [fProc EXCEPT ![w] = [pc |-> "done", key |-> key]]
    /\ fDone' = Append(fDone, [worker |-> w, key |-> key, id |-> id])

\* getOrCreateFolder up to its first await: a cached id is returned at once.
FolderStart(w, key) ==
    /\ fProc[w].pc = "idle"
    /\ LET cached == TTLGet(fCache, key, FolderNow)
       IN  /\ fCache' = TTLAfterLookup(fCache, key, FolderNow)
           /\ IF cached # {}
              THEN FolderReturn(w, key, TheValue(cached))
              ELSE /\ fProc' = [fProc EXCEPT ![w] = [pc |-> "search", key |-> key]]
                   /\ UNCHANGED fDone
    /\ UNCHANGED fDrive

\* The search returns: an existing folder is cached and returned, else the folder
\* is to be created.
FolderSearchReturns(w) ==
    /\ fProc[w].pc = "search"
    /\ LET key == fProc[w].key
           folders == FolderList(fDrive, key)
       IN  IF folders # <<>>
           THEN /\ fCache' = TTLSet(fCache, DRIVE_folderCacheSize, DRIVE_folderCacheTTL,
                                     key, folders[1].id, FolderNow)
                /\ FolderReturn(w, key, folders[1].id)
           ELSE /\ fProc' = [fProc EXCEPT ![w].pc = "create"]
                /\ UNCHANGED <<fCache, fDone>>
    /\ UNCHANGED fDrive

\* files.create returns: Drive has made a new folder, whose id is cached and returned.
FolderCreateReturns(w) ==
    /\ fProc[w].pc = "create"
    /\ LET key == fProc[w].key
           folderId == Len(fDrive) + 1
       IN  /\ fDrive' = Append(fDrive, [key |-> key, id |-> folderId, created |-> TRUE])
           /\ fCache' = TTLSet(fCache, DRIVE_folderCacheSize, DRIVE_folderCacheTTL,
                                key, folderId, FolderNow)
           /\ FolderReturn(w, key, folderId)

\* The search or the creation fails for good: the error leaves getOrCreateFolder.
FolderRequestFails(w) ==
    /\ fProc[w].pc \in {"search", "create"}
    /\ FolderReturn(w, fProc[w].key, 0)
    /\ UNCHANGED <<fDrive, fCache>>

(***************************************************************************)
(* startDriveSyncCron (cron): the task is kept in a global, and runSync,   *)
(* called at every tick and on start, is guarded by isRunning.             *)
(***************************************************************************)
MaxCronStarts == 2
MaxCronEvents == 5

\* The tasks cron.schedule may return, numbered in order of scheduling.
CronTasks == 1..MaxCronStarts

CronIsRunningIgnored(isRunning) == FALSE

\* if (isRunning) { ...; return; }
CronIsRunning(isRunning) == isRunning

CronIdle ==
    /\ cTask = 0
    /\ cScheduled = 0
    /\ cIsRunning = [t \in CronTasks |-> FALSE]
    /\ cRunning = [t \in CronTasks |-> 0]
    /\ cLog = [i \in 1..MaxCronEvents |-> [op |-> "idle"]]

\* The process has started; startDriveSyncCron has not been called.
CronInit ==
    /\ cTask = 0
    /\ cScheduled = 0
    /\ cIsRunning = [t \in CronTasks |-> FALSE]
    /\ cRunning = [t \in CronTasks |-> 0]
    /\ cLog = <<>>

\* runSync of task t up to its await: [isRunning, running, the event logged].
RunSync(t, isRunning, running) ==
    IF CronIsRunning(isRunning[t])
    THEN [isRunning |-> isRunning, running |-> running,
          event |-> [op |-> "runSync", task |-> t, started |-> FALSE,
                     inProgress |-> running[t]]]
    ELSE [isRunning |-> [isRunning EXCEPT ![t] = TRUE],
          running |-> [running EXCEPT ![t] = @ + 1],
          event |-> [op |-> "runSync", task |-> t, started |-> TRUE,
                     inProgress |-> running[t]]]

\* startDriveSyncCron(options): the task already scheduled is returned; a disabled
\* job or an invalid schedule returns null; else the task is scheduled, after a first
\* runSync when runOnStart is set, and kept in the global.
StartDriveSyncCron(enabled, valid, runOnStart) ==
    /\ Len(cLog) < MaxCronEvents
    /\ IF cTask # 0
       THEN /\ cLog' = Append(cLog, [op |-> "start", returned |-> cTask, scheduled |-> FALSE])
            /\ UNCHANGED <<cTask, cScheduled, cIsRunning, cRunning>>
       ELSE IF ~enabled \/ ~valid
       THEN /\ cLog' = Append(cLog, [op |-> "start", returned |-> 0, scheduled |-> FALSE])
            /\ UNCHANGED <<cTask, cScheduled, cIsRunning, cRunning>>
       ELSE /\ cScheduled < MaxCronStarts
            /\ LET task == cScheduled + 1
                   fresh == [cIsRunning EXCEPT ![task] = FALSE]
                   first == RunSync(task, fresh, cRunning)
                   started == [op |-> "start", returned |-> task, scheduled |-> TRUE]
               IN  /\ cIsRunning' = IF runOnStart THEN first.isRunning ELSE fresh
                   /\ cRunning' = IF runOnStart THEN first.running ELSE cRunning
                   /\ cLog' = IF runOnStart THEN cLog \o <<first.event, started>>
                              ELSE Append(cLog, started)
                   /\ cScheduled' = task
                   /\ cTask' = task

\* A tick of the schedule of task t: void runSync().
CronTick(t) ==
    /\ Len(cLog) < MaxCronEvents
    /\ t <= cScheduled
    /\ LET r == RunSync(t, cIsRunning, cRunning)
       IN  /\ cIsRunning' = r.isRunning
           /\ cRunning' = r.running
           /\ cLog' = Append(cLog, r.event)
    /\ UNCHANGED <<cTask, cScheduled>>

\* syncPendingDriveRecords of a run of task t returns or throws: the finally block
\* resets isRunning.
CronRunEnds(t, threw) ==
    /\ Len(cLog) < MaxCronEvents
    /\ cRunning[t] > 0
    /\ cRunning' = [cRunning EXCEPT ![t] = @ - 1]
    /\ cIsRunning' = [cIsRunning EXCEPT ![t] = FALSE]
    /\ cLog' = Append(cLog, [op |-> "end", task |-> t, threw |-> threw])
    /\ UNCHANGED <<cTask, cScheduled>>

(***************************************************************************)
(* The worker of the submission queue: the processor of a job loads the    *)
(* photos from the temporary directory, runs performSubmissionSave and     *)
(* removes the directory in its finally block; the queue makes up to       *)
(* `attempts` attempts of a job.                                           *)
(***************************************************************************)
MaxJobs == 2
MaxJobPhotos == 1

\* defaultJobOptions.attempts
QUEUE_attempts == 3

QueueJobs == 1..MaxJobs

JobIdle ==
    /\ jPhotos = [j \in QueueJobs |-> 0]
    /\ jDir = [j \in QueueJobs |-> FALSE]
    /\ jPc = [j \in QueueJobs |-> "completed"]
    /\ jAttemptsMade = [j \in QueueJobs |-> 0]
    /\ jThrown = [j \in QueueJobs |-> FALSE]
    /\ jLog = <<>>

\* The jobs as enqueueSubmissionSave added them: the photos are in the directory.
JobInit ==
    /\ jPhotos \in [QueueJobs -> 0..MaxJobPhotos]
    /\ jDir = [j \in QueueJobs |-> TRUE]
    /\ jPc = [j \in QueueJobs |-> "waiting"]
    /\ jAttemptsMade = [j \in QueueJobs |-> 0]
    /\ jThrown = [j \in QueueJobs |-> FALSE]
    /\ jLog = <<>>

\* loadPhotos: fs.readFile of every stored photo; a file that is gone makes it throw.
LoadPhotosThrows(photos, dirPresent) == photos > 0 /\ ~dirPresent

\* The queue hands the job to the processor (worker concurrency 1): a first attempt or
\* a retry after the backoff delay.
JobAttemptStarts(j) ==
    /\ jPc[j] = "waiting"
    /\ \A k \in QueueJobs : jPc[k] \in {"waiting", "completed", "failed"}
    /\ jAttemptsMade[j] < QUEUE_attempts
    /\ jAttemptsMade' = [jAttemptsMade EXCEPT ![j] = @ + 1]
    /\ jPc' = [jPc EXCEPT ![j] = "load"]
    /\ jThrown' = [jThrown EXCEPT ![j] = FALSE]
    /\ jLog' = Append(jLog, [job |-> j, attempt |-> jAttemptsMade[j] + 1, dirPresent |-> jDir[j]])
    /\ UNCHANGED <<jPhotos, jDir>>

\* const loadedPhotos = await loadPhotos(photos)
JobLoadPhotos(j) ==
    /\ jPc[j] = "load"
    /\ IF LoadPhotosThrows(jPhotos[j], jDir[j])
       THEN jPc' = [jPc EXCEPT ![j] = "cleanup"] /\ jThrown' = [jThrown EXCEPT ![j] = TRUE]
       ELSE jPc' = [jPc EXCEPT ![j] = "save"] /\ UNCHANGED jThrown
    /\ UNCHANGED <<jPhotos, jDir, jAttemptsMade, jLog>>

\* await performSubmissionSave(hydratedContext, data, loadedPhotos)
JobSave(j, ok) ==
    /\ jPc[j] = "save"
    /\ jPc' = [jPc EXCEPT ![j] = "cleanup"]
    /\ jThrown' = [jThrown EXCEPT ![j] = ~ok]
    /\ UNCHANGED <<jPhotos, jDir, jAttemptsMade, jLog>>

\* finally { await cleanupTempDir(tempDir) }, then the queue settles the attempt: the
\* job is completed, waits for its next attempt, or has failed for good.
JobCleanup(j) ==
    /\ jPc[j] = "cleanup"
    /\ jDir' = [jDir EXCEPT ![j] = FALSE]
    /\ jPc' = [jPc EXCEPT ![j] = IF ~jThrown[j] THEN "completed"
                                 ELSE IF jAttemptsMade[j] < QUEUE_attempts THEN "waiting"
                                 ELSE "failed"]
    /\ UNCHANGED <<jPhotos, jAttemptsMade, jThrown, jLog>>

(***************************************************************************)
(* The specifications.                                                     *)
(***************************************************************************)
notLru == <<retryVars, genVars, locVars, syncVars, ttlVars, schVars, enqVars, survVars,
            driveVars, xlsVars, folderVars, cronVars, jobVars>>
notRetry == <<lruVars, genVars, locVars, syncVars, ttlVars, schVars, enqVars, survVars,
              driveVars, xlsVars, folderVars, cronVars, jobVars>>
notGen == <<lruVars, retryVars, locVars, syncVars, ttlVars, schVars, enqVars, survVars,
            driveVars, xlsVars, folderVars, cronVars, jobVars>>
notLoc == <<lruVars, retryVars, genVars, syncVars, ttlVars, schVars, enqVars, survVars,
            driveVars, xlsVars, folderVars, cronVars, jobVars>>
notSync == <<lruVars, retryVars, genVars, locVars, ttlVars, schVars, enqVars, survVars,
             driveVars, xlsVars, folderVars, cronVars, jobVars>>
notTtl == <<lruVars, retryVars, genVars, locVars, syncVars, schVars, enqVars, survVars,
            driveVars, xlsVars, folderVars, cronVars, jobVars>>
notSched == <<lruVars, retryVars, genVars, locVars, syncVars, ttlVars, enqVars,
              survVars, driveVars, xlsVars, folderVars, cronVars, jobVars>>
notEnq == <<lruVars, retryVars, genVars, locVars, syncVars, ttlVars, schVars, survVars,
            driveVars, xlsVars, folderVars, cronVars, jobVars>>
notSurv == <<lruVars, retryVars, genVars, locVars, syncVars, ttlVars, schVars, enqVars,
             driveVars, xlsVars, folderVars, cronVars, jobVars>>
notDrive == <<lruVars, retryVars, genVars, locVars, syncVars, ttlVars, schVars,
              enqVars, survVars, xlsVars, folderVars, cronVars, jobVars>>
notXls == <<lruVars, retryVars, genVars, locVars, syncVars, ttlVars, schVars, enqVars,
            survVars, driveVars, folderVars, cronVars, jobVars>>
notFolder == <<lruVars, retryVars, genVars, locVars, syncVars, ttlVars, schVars,
               enqVars, survVars, driveVars, xlsVars, cronVars, jobVars>>
notCron == <<lruVars, retryVars, genVars, locVars, syncVars, ttlVars, schVars, enqVars,
             survVars, driveVars, xlsVars, folderVars, jobVars>>
notJob == <<lruVars, retryVars, genVars, locVars, syncVars, ttlVars, schVars, enqVars,
            survVars, driveVars, xlsVars, folderVars, cronVars>>

LruNext ==
    \/ \E k \in LruKeys : LruDoGet(k) /\ UNCHANGED notLru
    \/ \E k \in LruKeys : LruDoSet(k) /\ UNCHANGED notLru

InitLRU == LruInit /\ RetryIdle /\ GenIdle /\ LocIdle /\ SyncIdle /\ TtlIdle /\ SchedIdle /\ EnqIdle /\ SurvIdle
        /\ DriveIdle
        /\ XlsIdle
        /\ FolderIdle
        /\ CronIdle
        /\ JobIdle

SpecLRU == InitLRU /\ [][LruNext]_vars

RetryNext ==
    \/ RetryCallSucceeds /\ UNCHANGED notRetry
    \/ \E error \in ThrownErrors(Len(rLog) + 1) : RetryCallFails(error) /\ UNCHANGED notRetry
    \/ RetrySleepEnds /\ UNCHANGED notRetry

InitRetry == RetryInit /\ LruIdle /\ GenIdle /\ LocIdle /\ SyncIdle /\ TtlIdle /\ SchedIdle /\ EnqIdle /\ SurvIdle
        /\ DriveIdle
        /\ XlsIdle
        /\ FolderIdle
        /\ CronIdle
        /\ JobIdle

SpecRetry == InitRetry /\ [][RetryNext]_vars

\* C8: when fn fails R times with retryable errors and then succeeds (R <= maxRetries),
\* retryWithBackoff returns the success value after exactly R+1 invocations and R
\* sleeps, the i-th sleep (i = 0..R-1) lasting min(baseDelay * 2^i, maxDelay); it
\* gives up on retryable failures only after maxRetries+1 of them.
C8_RetrySucceedsOnSchedule ==
    /\ rPc = "returned" =>
          LET R == Len(rLog) - 1
          IN  /\ rLog[R + 1].ok
              /\ rOut = rLog[R + 1]
              /\ \A i \in 1..R : ~rLog[i].ok /\ IsRetryable(rOpts.isRetryable, rLog[i].error)
              /\ R <= rOpts.maxRetries
              /\ Len(rSleeps) = R
              /\ \A i \in 0..(R - 1) :
                    rSleeps[i + 1] = Min2(rOpts.baseDelay * 2 ^ i, rOpts.maxDelay)
    /\ (/\ rPc = "thrown"
        /\ \A i \in 1..Len(rLog) : ~rLog[i].ok /\ IsRetryable(rOpts.isRetryable, rLog[i].error))
          => Len(rLog) = rOpts.maxRetries + 1

\* Three retryable failures, then success, with the third sleep capped at maxDelay.
C8_Witness ==
    /\ rPc = "returned"
    /\ Len(rLog) = 4
    /\ rSleeps = <<1000, 2000, 3000>>

\* C9: fn is invoked at most maxRetries+1 times; a failure that is not retryable, or
\* the failure of invocation maxRetries+1, is propagated at once: the error thrown is
\* that of the last invocation, and no sleep and no invocation follows it.
RetryIsFinalFailure(log) ==
    /\ log # <<>>
    /\ ~log[Len(log)].ok
    /\ \/ ~IsRetryable(rOpts.isRetryable, log[Len(log)].error)
       \/ Len(log) = rOpts.maxRetries + 1

C9_RetryBoundedAndPropagates ==
    /\ Len(rLog) <= rOpts.maxRetries + 1
    /\ \A i \in 1..(Len(rLog) - 1) : ~RetryIsFinalFailure(SubSeq(rLog, 1, i)) /\ ~rLog[i].ok
    /\ RetryIsFinalFailure(rLog) =>
          /\ rPc = "thrown"
          /\ rOut = rLog[Len(rLog)].error
          /\ Len(rSleeps) = Len(rLog) - 1
    /\ rPc = "thrown" => RetryIsFinalFailure(rLog)

\* The budget of two retries is used up: the third invocation fails with a retryable error.
C9_Witness ==
    /\ rPc = "thrown"
    /\ rOpts.maxRetries = 2
    /\ Len(rLog) = 3
    /\ IsRetryableError(rLog[3].error)
    /\ rOpts.isRetryable = "isRetryableError"

GenNext ==
    \/ GenCall /\ UNCHANGED notGen

InitGen == GenInit /\ LruIdle /\ RetryIdle /\ LocIdle /\ SyncIdle /\ TtlIdle /\ SchedIdle /\ EnqIdle /\ SurvIdle
        /\ DriveIdle
        /\ XlsIdle
        /\ FolderIdle
        /\ CronIdle
        /\ JobIdle

SpecGen == InitGen /\ [][GenNext]_vars

\* C7: the code returned by generateUniqueCode is never a member of existingCodes,
\* also when the base code, the candidates with suffix 2..9 and the pairwise
\* candidates are all taken and the hash code is used.
C7_GeneratedCodeIsUnused == genPc = "returned" => genResult \notin genExisting

LocNext ==
    \/ \E p \in LocProcs, coord \in Coords : LocStart(p, coord) /\ UNCHANGED notLoc
    \/ \E p \in LocProcs : LocQuery(p) /\ UNCHANGED notLoc
    \/ \E p \in LocProcs : LocReadExisting(p) /\ UNCHANGED notLoc
    \/ \E p \in LocProcs : LocWrite(p) /\ UNCHANGED notLoc
    \/ \E p \in LocProcs : LocStoreFails(p) /\ UNCHANGED notLoc

InitLoc == LocInit /\ LruIdle /\ RetryIdle /\ GenIdle /\ SyncIdle /\ TtlIdle /\ SchedIdle /\ EnqIdle /\ SurvIdle
        /\ DriveIdle
        /\ XlsIdle
        /\ FolderIdle
        /\ CronIdle
        /\ JobIdle

SpecLoc == InitLoc /\ [][LocNext]_vars

\* C5: for a coordinate inside a commune polygon every call of getLocationCode returns
\* the same location code, and a call whose coordinates round to the key of an earlier
\* successful call is answered from the cache, with no statement sent to the store.
C5_SameCodeAndCacheServed ==
    \A i, j \in 1..Len(locDone) :
        /\ (/\ locDone[i].outcome = "ok" /\ locDone[j].outcome = "ok"
            /\ locDone[i].coord = locDone[j].coord)
              => locDone[i].info.locationCode = locDone[j].info.locationCode
        /\ (/\ locDone[i].outcome = "ok"
            /\ locDone[i].key = locDone[j].key
            /\ i <= locDone[j].after)
              => locDone[j].fromCache /\ locDone[j].ops = 0

SyncNext ==
    \/ SyncBegin /\ UNCHANGED notSync
    \/ SyncStartWorker /\ UNCHANGED notSync
    \/ \E id \in RecordIds, folderCreated \in BOOLEAN :
          SyncWorkerFinishes(id, folderCreated) /\ UNCHANGED notSync
    \/ SyncRaceResumes /\ UNCHANGED notSync
    \/ SyncLoopEnds /\ UNCHANGED notSync
    \/ SyncAllSettled /\ UNCHANGED notSync
    \/ SyncExcelOpen /\ UNCHANGED notSync
    \/ \E outcome \in ExcelOutcomes : SyncExcelGroup(outcome) /\ UNCHANGED notSync
    \/ SyncExcelDone /\ UNCHANGED notSync
    \/ \E updateOk \in BOOLEAN : SyncUpdateRecord(updateOk) /\ UNCHANGED notSync
    \/ SyncReturn /\ UNCHANGED notSync

InitSync == SyncInit /\ LruIdle /\ RetryIdle /\ GenIdle /\ LocIdle /\ TtlIdle /\ SchedIdle /\ EnqIdle /\ SurvIdle
        /\ DriveIdle
        /\ XlsIdle
        /\ FolderIdle
        /\ CronIdle
        /\ JobIdle

SpecSync == InitSync /\ [][SyncNext]_vars

\* The records of the invocation.
Batch == 1..sN

\* The destination group of a record, from the record's data alone: {} when the
\* record contributes no spreadsheet row.
DestinationGroup(id) ==
    IF sDrive /\ id \notin sNoIdentity /\ ProvinceName(id, sNullProv) # NULL
    THEN {ProvinceName(id, sNullProv)}
    ELSE {}

Tally(success, failed) == [success |-> success, failed |-> failed]

IsSynced(id) == sStore[id].syncStatus = "synced" /\ sStore[id].syncedAt # {}

IsFailedWith(id, error) == sStore[id].syncStatus = "failed" /\ sStore[id].syncError = error

OnlyExcelFaults ==
    /\ ~sFaults.fetch /\ sFaults.download = {} /\ sFaults.update = {}
    /\ Batch \cap sNoIdentity = {}

\* C1: when the spreadsheet write of exactly one destination group G fails and nothing
\* else does, the K records of G end failed with the group's error message (behind
\* the prefix "Excel sync failed: "), every other record ends synced, and the tally
\* returned is {success: N - K, failed: K}.
C1_GroupWriteFailureFailsItsRecords ==
    (sPc = "returned" /\ OnlyExcelFaults /\ Cardinality(sFaults.excel) = 1) =>
        LET fault == CHOOSE f \in sFaults.excel : TRUE
            inGroup == {id \in Batch : DestinationGroup(id) = {fault[1]}}
        IN  /\ \A id \in inGroup : IsFailedWith(id, <<"Excel sync failed: ">> \o fault[2])
            /\ \A id \in Batch \ inGroup : IsSynced(id)
            /\ sReturn = {Tally(sN - Cardinality(inGroup), Cardinality(inGroup))}

\* Three records, two of them in the group whose upload fails: the tally is {1, 2}.
C1_Witness ==
    /\ sPc = "returned" /\ OnlyExcelFaults /\ sN = 3
    /\ sFaults.excel = {<<"Takeo", <<"Failed to upload to Drive: ", "Drive error">>>>}
    /\ {id \in Batch : DestinationGroup(id) = {"Takeo"}} = {1, 3}
    /\ sReturn = {Tally(1, 2)}

\* C2: when every external call succeeds, all N records end synced with a non-null
\* syncedAt and the tally returned is {success: N, failed: 0}.
C2_AllSucceedAllSynced ==
    (sPc = "returned" /\ sN > 0 /\ OnlyExcelFaults /\ sFaults.excel = {}) =>
        /\ \A id \in Batch : IsSynced(id)
        /\ sReturn = {Tally(sN, 0)}

C2_Witness ==
    /\ sPc = "returned" /\ sN = MaxBatch /\ OnlyExcelFaults /\ sFaults.excel = {}
    /\ sDrive /\ Len(sExcelGroups) = 2
    /\ \A id \in Batch : sStore[id].syncStatus = "synced"

\* What one record ends as, told from its own preparation failure, the write failure
\* of its own group and its own status-update failure only.
ExpectedOutcome(id) ==
    IF id \in sFaults.update THEN sStore[id] = PendingRow
    ELSE IF id \in sNoIdentity THEN IsFailedWith(id, <<"Field identity not found">>)
    ELSE IF \E f \in sFaults.excel : DestinationGroup(id) = {f[1]}
         THEN \E f \in sFaults.excel :
                 /\ DestinationGroup(id) = {f[1]}
                 /\ IsFailedWith(id, <<"Excel sync failed: ">> \o f[2])
         ELSE IsSynced(id)

\* C3: the invocation never stops short of its return and returns a tally, under any
\* combination of preparation, spreadsheet-write and status-update failures; the
\* outcome of a record depends on its own failures and its group's only, so a
\* preparation failure of one record changes nothing for the others.
C3_AlwaysTallyRecordsIndependent ==
    /\ sPc \in {"idle", "start", "loop", "race", "allSettled", "excel", "cycle", "update",
                "returned"}
    /\ sPc \notin {"idle", "returned"} => ENABLED SyncNext
    /\ sPc = "returned" => \E t \in [success : 0..sN, failed : 0..sN] : sReturn = {t}
    /\ (sPc = "returned" /\ sFaults.fetch) =>
          /\ \A id \in Batch : sStore[id] = PendingRow
          /\ sReturn = {Tally(0, 0)}
    /\ (sPc = "returned" /\ ~sFaults.fetch) =>
          /\ \A id \in Batch : ExpectedOutcome(id)
          /\ sReturn = {Tally(Cardinality({id \in Batch : sStore[id].syncStatus = "synced"}),
                              Cardinality({id \in Batch : sStore[id].syncStatus = "failed"}))}

\* Record 1 fails in preparation, record 2 fails with its group, record 3, which would
\* share the group of record 1, is synced.
C3_Witness ==
    /\ sPc = "returned" /\ sN = 3 /\ sNoIdentity = {1} /\ sDrive /\ sNullProv = 0
    /\ sFaults.update = {}
    /\ IsFailedWith(1, <<"Field identity not found">>)
    /\ sStore[2].syncStatus = "failed" /\ sStore[2].syncError[1] = "Excel sync failed: "
    /\ IsSynced(3)
    /\ sReturn = {Tally(1, 2)}

\* The cap in force: the parsed setting when it is a positive integer, else 2.
ConfiguredCap == IF sEnv # {} /\ TheValue(sEnv) > 0 THEN TheValue(sEnv) ELSE 2

\* C4: in the per-record phase the workers started and not yet finished never number
\* more than the cap, under every interleaving; with a cap of 1 at most one worker is
\* running at any time.
C4_InFlightWithinCap ==
    /\ sUploading \subseteq sExecuting
    /\ Cardinality(sExecuting) <= ConfiguredCap
    /\ ConfiguredCap = 1 => Cardinality(sExecuting) <= 1

\* Cap 2, two workers in flight and a third record waiting for one of them.
C4_Witness ==
    /\ sPc = "race" /\ ConfiguredCap = 2 /\ sN = 3
    /\ sUploading = {1, 2} /\ sNext = 3


TtlNext ==
    \/ TtlTick /\ UNCHANGED notTtl
    \/ \E k \in TtlKeys : TtlDoGet(k) /\ UNCHANGED notTtl
    \/ \E k \in TtlKeys : TtlDoHas(k) /\ UNCHANGED notTtl
    \/ \E k \in TtlKeys : TtlDoSet(k) /\ UNCHANGED notTtl

InitTtl == TtlInit /\ LruIdle /\ RetryIdle /\ GenIdle /\ LocIdle /\ SyncIdle /\ SchedIdle /\ EnqIdle /\ SurvIdle
        /\ DriveIdle
        /\ XlsIdle
        /\ FolderIdle
        /\ CronIdle
        /\ JobIdle

SpecTtl == InitTtl /\ [][TtlNext]_vars

\* The key that entered the Map earliest among the keys S.
OldestInserted(S) == CHOOSE k \in S : \A j \in S : ttlJoined[k] <= ttlJoined[j]

\* C11: the cache never holds more than maxSize entries after a set; a set that takes
\* the Map over capacity removes exactly one entry, the key that entered the Map
\* earliest among those present (the new key included), whether or not that entry or
\* any other one is expired and whatever gets were made; every other entry stays.
C11_TtlEvictsOldestInserted ==
    ttlLast.op = "set" =>
        LET before == MapKeys(ttlLast.before)
            present == before \cup {ttlLast.key}
            after == MapKeys(ttlCache)
        IN  /\ Len(ttlCache) <= ttlMax
            /\ IF Cardinality(present) > ttlMax
               THEN after = present \ {OldestInserted(present)}
               ELSE after = present

\* Capacity 2: key 1 was set again after key 2 entered, key 2 is expired and
\* key 1 is fresh, and the set of key 3 removes key 1.
C11_Witness ==
    /\ ttlLast.op = "set" /\ ttlLast.key = 3 /\ ttlMax = 2
    /\ MapKeys(ttlLast.before) = {1, 2}
    /\ ttlSetAt[1] > ttlSetAt[2]
    /\ TTLExpired(ttlLast.now, ttlSetAt[2] + ttlMs) /\ ~TTLExpired(ttlLast.now, ttlSetAt[1] + ttlMs)
    /\ MapKeys(ttlCache) = {2, 3}

\* The entries of a Map apart from the one of key k.
OtherEntries(c, k) == SelectSeq(c, LAMBDA e : e.key # k)

\* C12: get(k) returns a value, and has(k) true, only when the time is at most the time
\* of the last set of k plus ttlMs; a get or has that finds k expired deletes k and
\* reports it absent; the call changes no other entry.
C12_TtlLookupOnlyFresh ==
    ttlLast.op \in {"get", "has"} =>
        LET k == ttlLast.key
            held == MapHas(ttlLast.before, k)
        IN  /\ ttlLast.result # {} => ttlSetAt[k] >= 0 /\ ttlLast.now <= ttlSetAt[k] + ttlMs
            /\ (held /\ ttlLast.now > ttlSetAt[k] + ttlMs) =>
                  ttlLast.result = {} /\ ~MapHas(ttlCache, k)
            /\ (held /\ ttlLast.now <= ttlSetAt[k] + ttlMs) =>
                  ttlLast.result # {} /\ ttlCache = ttlLast.before
            /\ OtherEntries(ttlCache, k) = OtherEntries(ttlLast.before, k)

\* A get finds its key expired beside a fresh entry: the key goes, the other stays.
C12_Witness ==
    /\ ttlLast.op = "get" /\ MapHas(ttlLast.before, ttlLast.key)
    /\ ttlLast.now > ttlSetAt[ttlLast.key] + ttlMs
    /\ ttlLast.result = {}
    /\ Len(ttlLast.before) = 2 /\ Len(ttlCache) = 1


SchedNext ==
    \/ \E batchSize \in BatchSizeOptions, outcome \in AllBatchOutcomes :
          SyncPendingDriveRecords(batchSize, outcome) /\ UNCHANGED notSched
    \/ \E outcome \in AllBatchOutcomes : CronGet(outcome) /\ UNCHANGED notSched

InitSched == SchedInit /\ LruIdle /\ RetryIdle /\ GenIdle /\ LocIdle /\ SyncIdle /\ TtlIdle /\ EnqIdle /\ SurvIdle
        /\ DriveIdle
        /\ XlsIdle
        /\ FolderIdle
        /\ CronIdle
        /\ JobIdle

SpecSched == InitSched /\ [][SchedNext]_vars

\* C13: a record left failed stays eligible for a later batch: a scheduler run
\* (syncPendingDriveRecords or the cron GET) made while the record is failed, and
\* whose batch has room for every record of the store, selects it again.
C13_FailedRecordsSelectedAgain ==
    \A i \in 1..Len(schLog) :
        \A id \in SchedRecords :
            (schLog[i].before[id] = "failed" /\ schLog[i].take >= MaxSchedRecords)
                => id \in Range(schLog[i].ids)

EnqNext ==
    \/ \E c \in EnqueueCalls : EnqStart(c) /\ UNCHANGED notEnq
    \/ \E c \in EnqueueCalls, outcome \in PersistOutcomes :
          EnqPersist(c, outcome) /\ UNCHANGED notEnq
    \/ \E c \in EnqueueCalls, added \in BOOLEAN : EnqAdd(c, added) /\ UNCHANGED notEnq

InitEnq ==
    EnqInit /\ LruIdle /\ RetryIdle /\ GenIdle /\ LocIdle /\ SyncIdle /\ TtlIdle /\ SchedIdle
            /\ SurvIdle
        /\ DriveIdle
        /\ XlsIdle
        /\ FolderIdle
        /\ CronIdle
        /\ JobIdle

SpecEnq == InitEnq /\ [][EnqNext]_vars

\* How many times c occurs in a sequence.
Occurrences(seq, c) == Cardinality({i \in 1..Len(seq) : seq[i] = c})

\* C14: every call returns a job id; its save is started exactly once, by a job in the
\* queue when the add succeeded, inline when there is no queue or when persisting the
\* photos or adding the job failed, and in these failure cases no temporary
\* directory of the call is left on disk.
C14_EnqueueOnceWithInlineFallback ==
    \A c \in EnqueueCalls :
        qCall[c].pc = "returned" =>
            LET jobs == Cardinality({i \in 1..Len(qJobs) : qJobs[i].call = c})
                inline == Occurrences(qInline, c)
            IN  /\ qReturn[c] # {}
                /\ jobs + inline = 1
                /\ inline = 1 <=> qCall[c].fault # "none"
                /\ qCall[c].fault \in {"failsBeforeDir", "writeFails", "addFails"} =>
                      TempDirOf(c) \notin qDisk


SurvNext ==
    \/ \E p \in SurvProcs, identity \in Identities, gpsLocationCode \in GpsLocationCodes :
          SurvStart(p, identity, gpsLocationCode) /\ UNCHANGED notSurv
    \/ \E p \in SurvProcs : SurvFind(p) /\ UNCHANGED notSurv
    \/ \E p \in SurvProcs : SurvCount(p) /\ UNCHANGED notSurv
    \/ \E p \in SurvProcs : SurvCreate(p) /\ UNCHANGED notSurv

InitSurv ==
    SurvInit /\ LruIdle /\ RetryIdle /\ GenIdle /\ LocIdle /\ SyncIdle /\ TtlIdle /\ SchedIdle
             /\ EnqIdle
        /\ DriveIdle
        /\ XlsIdle
        /\ FolderIdle
        /\ CronIdle
        /\ JobIdle

SpecSurv == InitSurv /\ [][SurvNext]_vars

\* C15: under every order and interleaving of prepareSubmissionContext calls, no two
\* surveyor rows of one location code have the same surveyor number, and an identity
\* has at most one surveyor row.
C15_SurveyorNumbersUnique ==
    \A i, j \in 1..Len(survRows) :
        i # j =>
            /\ survRows[i].identity # survRows[j].identity
            /\ survRows[i].locationCode = survRows[j].locationCode
                  => survRows[i].surveyorNumber # survRows[j].surveyorNumber


\* C16: a call of getLocationCode with a latitude or longitude that is not a finite
\* number fails with an invalid-coordinates error, with no statement sent to the store
\* and nothing taken from the cache.
C16_NonFiniteRejectedFirst ==
    \A i \in 1..Len(locDone) :
        (~IsFiniteNumber(locDone[i].coord.lat) \/ ~IsFiniteNumber(locDone[i].coord.lng)) =>
            /\ locDone[i].outcome = "invalid_coordinates"
            /\ locDone[i].ops = 0
            /\ ~locDone[i].fromCache

\* C17: a call whose containment query returns no row fails with the not-found error
\* after that one statement, so it writes no code, and its key never enters the cache;
\* a call that ends on a store failure returns no value; every cache entry is the
\* result of a call that succeeded.
C17_NotFoundAndStoreErrorsCacheNothing ==
    /\ \A i \in 1..Len(locDone) :
          /\ locDone[i].outcome = "not_found" =>
                /\ locDone[i].coord \in {Coord_Out, Coord_NaN, Coord_Inf}
                /\ locDone[i].ops = 1
                /\ locDone[i].info = NULL
                /\ ~MapHas(locationCache, locDone[i].key)
          /\ locDone[i].coord \in {Coord_Out, Coord_NaN, Coord_Inf} =>
                locDone[i].outcome \in {"not_found", "store_error"}
          /\ locDone[i].outcome = "store_error" =>
                locDone[i].info = NULL /\ ~locDone[i].fromCache
    /\ \A i \in 1..Len(locationCache) :
          \E j \in 1..Len(locDone) :
              /\ locDone[j].outcome = "ok" /\ ~locDone[j].fromCache
              /\ locDone[j].key = locationCache[i].key
              /\ locDone[j].info = locationCache[i].value

\* One call found no commune, another ended on a store failure after it had written
\* the province code; the cache is empty.
C17_Witness ==
    /\ Len(locDone) = 2 /\ locationCache = <<>>
    /\ locDone[1].outcome = "not_found" /\ locDone[1].coord = Coord_Out
    /\ locDone[2].outcome = "store_error" /\ locDone[2].ops > 3

\* The first two characters of a code followed by the digit d (2..9).
WithDigit(code, d) == <<code[1], code[2], <<"2", "3", "4", "5", "6", "7", "8", "9">>[d - 1]>>

\* C18: a name whose base code is not in use gets the base code; a name whose base
\* code is in use, as after a first region of the same base code, gets the first two
\* characters of the base code followed by the smallest digit of 2..9 whose candidate
\* is not in use, a code different from the base code.
C18_SecondGetsSmallestFreeDigit ==
    genPc = "returned" =>
        LET baseCode == GenerateBaseCode(genName)
            free == {d \in 2..9 : WithDigit(baseCode, d) \notin genExisting}
        IN  /\ baseCode \notin genExisting => genResult = baseCode
            /\ (baseCode \in genExisting /\ free # {}) =>
                  /\ genResult = WithDigit(baseCode, CHOOSE d \in free : \A e \in free : d <= e)
                  /\ genResult # baseCode
                  /\ genResult \notin genExisting

\* "Ta Khmau" after TKM and TK2 are taken gets TK3.
C18_Witness ==
    /\ genPc = "returned" /\ genName = Name_TaKhmau
    /\ <<"T", "K", "M">> \in genExisting /\ <<"T", "K", "2">> \in genExisting
    /\ <<"T", "K", "3">> \notin genExisting
    /\ genResult = <<"T", "K", "3">>

\* C19 as stated: after a successful call for (11.556000, 104.928000), the next call,
\* for (11.556001, 104.928000), is served from the cache with no store query and
\* returns the same LocationInfo.
C19_NextMicroDegreeServedFromCache ==
    \A j \in 1..Len(locDone) :
        (/\ locDone[j].after >= 1
         /\ locDone[locDone[j].after].outcome = "ok"
         /\ locDone[locDone[j].after].coord = Coord_A
         /\ locDone[j].coord = Coord_A10) =>
            /\ locDone[j].fromCache
            /\ locDone[j].ops = 0
            /\ locDone[j].info = locDone[locDone[j].after].info

\* C19, amended: (11.5560004, 104.928) has the 6-decimal key of (11.556000, 104.928)
\* and (11.556001, 104.928) has another one; a call that starts when the last call
\* completed was a successful one of the same key is served from the cache, with no
\* store query and the same LocationInfo; a call for (11.556001, 104.928) is served
\* from the cache only after a successful call for that very key.
C19_SameKeyServedFromCache ==
    /\ CacheKey(Coord_A4) = CacheKey(Coord_A)
    /\ CacheKey(Coord_A10) # CacheKey(Coord_A)
    /\ \A j \in 1..Len(locDone) :
          /\ (/\ locDone[j].after >= 1
              /\ locDone[locDone[j].after].outcome = "ok"
              /\ locDone[locDone[j].after].key = locDone[j].key) =>
                 /\ locDone[j].fromCache
                 /\ locDone[j].ops = 0
                 /\ locDone[j].info = locDone[locDone[j].after].info
          /\ (locDone[j].coord = Coord_A10 /\ locDone[j].fromCache) =>
                 \E i \in 1..locDone[j].after :
                     locDone[i].outcome = "ok" /\ locDone[i].coord = Coord_A10

\* (11.556000, 104.928) is resolved through the store, then (11.5560004, 104.928) is
\* served from the cache.
C19_Witness ==
    /\ Len(locDone) = 2
    /\ locDone[1].coord = Coord_A /\ locDone[1].outcome = "ok" /\ ~locDone[1].fromCache
    /\ locDone[2].coord = Coord_A4 /\ locDone[2].fromCache /\ locDone[2].ops = 0
    /\ locDone[2].info = locDone[1].info

\* The spreadsheet of a group has been written, or its write has failed.
GroupWriteOver(groupKey) ==
    \/ sSheets[groupKey] # (IF groupKey = "Takeo" THEN <<0>> ELSE <<>>)
    \/ \E f \in sFaults.excel : f[1] = groupKey

\* C20: the phases of one invocation are in strict order: a spreadsheet write begins
\* only when every worker has been started and has settled, and a persisted status
\* changes only when every group write is over; so up to the status-update phase
\* every record still has the row it had before the invocation.
C20_PhasesStrictlyOrdered ==
    /\ (\E g \in DOMAIN sSheets : GroupWriteOver(g)) \/ sPc \in {"excel", "cycle", "update"} =>
          sExecuting = {} /\ sUploading = {} /\ sNext > sN
    /\ (\E id \in RecordIds : sStore[id] # PendingRow) =>
          /\ sPc \in {"update", "returned"}
          /\ \A i \in 1..Len(sExcelGroups) : GroupWriteOver(sExcelGroups[i].key)
    /\ sPc \in {"start", "loop", "race", "allSettled", "excel", "cycle"} =>
          /\ \A id \in RecordIds : sStore[id] = PendingRow
          /\ sResults = [success |-> 0, failed |-> 0]

\* Between the two group writes: the first write has failed, its records are failed
\* in memory only, and the store still shows every record as pending.
C20_Witness ==
    /\ sPc = "excel" /\ sIdx = 2 /\ Len(sExcelGroups) = 2 /\ sN = 3
    /\ sFaults.excel # {}
    /\ \E i \in 1..Len(sRecordStatus) : sRecordStatus[i].value.status = "failed"
    /\ \A id \in RecordIds : sStore[id] = PendingRow

\* The number of times a record's row is among the rows of the calls of
\* syncExcelWithDrive for one destination key.
RowOccurrences(id, groupKey) ==
    Cardinality({<<i, j>> \in (1..Len(sCycles)) \X (1..MaxBatch) :
                    /\ sCycles[i].key = groupKey
                    /\ j <= Len(sCycles[i].rows)
                    /\ sCycles[i].rows[j] = id})

\* C21: within one invocation at most one download-modify-upload cycle is in progress
\* at any time, no destination key undergoes more than one cycle and, once phase 2 is
\* over, every destination key of the batch has undergone exactly one; the row of
\* every prepared record is handed to the cycle of its own key exactly once and to
\* no other, and a cycle that ends without error leaves its rows at the end of the file.
C21_GroupWritesSerializedAndBatched ==
    /\ Cardinality({i \in 1..Len(sCycles) : sCycles[i].open}) <= 1
    /\ \A i, j \in 1..Len(sCycles) : sCycles[i].key = sCycles[j].key => i = j
    /\ \A i \in 1..Len(sCycles) :
          (~sCycles[i].open /\ ~\E f \in sFaults.excel : f[1] = sCycles[i].key) =>
             LET sheet == sSheets[sCycles[i].key]
                 n == Len(sCycles[i].rows)
             IN  /\ Len(sheet) >= n
                 /\ SubSeq(sheet, Len(sheet) - n + 1, Len(sheet)) = sCycles[i].rows
    /\ (sPc \in {"update", "returned"} /\ ~sFaults.fetch) =>
          /\ \A i \in 1..Len(sCycles) : ~sCycles[i].open
          /\ {sCycles[i].key : i \in 1..Len(sCycles)} =
                UNION {DestinationGroup(id) : id \in Batch}
          /\ \A id \in Batch : \A g \in DOMAIN sSheets :
                RowOccurrences(id, g) = IF DestinationGroup(id) = {g} THEN 1 ELSE 0

\* Three records in two groups: the group of records 1 and 3 is written in one cycle,
\* then the cycle of the group of record 2 is in progress.
C21_Witness ==
    /\ sPc = "cycle" /\ sN = 3 /\ Len(sCycles) = 2
    /\ ~sCycles[1].open /\ sCycles[2].open
    /\ \E i \in 1..2 : Len(sCycles[i].rows) = 2 /\ Range(sCycles[i].rows) = {1, 3}
    /\ sSheets["Takeo"] \in {<<0, 1, 3>>, <<0, 3, 1>>}

\* A step of the scheduler specification is a run, and a run counts itself.
SchedRunFires == schRuns < MaxSchedRuns /\ schRuns' = schRuns + 1

\* The scheduler fires again and again: a run that can start eventually does.
SpecSchedLive == SpecSched /\ WF_schRuns(SchedRunFires)

\* The store as run i of the log left it.
StoreAfterRun(i) == IF i < Len(schLog) THEN schLog[i + 1].before ELSE schStore

\* Every run so far has updated the status of every record it selected.
StatusUpdatesSucceed ==
    \A i \in 1..Len(schLog) :
        \A id \in Range(schLog[i].ids) : StoreAfterRun(i)[id] # "pending"

\* A run of the log selected exactly the min(take, count) earliest pending records.
SelectsEarliestPending(run) ==
    LET pending == {id \in SchedRecords : run.before[id] = "pending"}
        selected == Range(run.ids)
    IN  /\ selected \subseteq pending
        /\ Len(run.ids) = Cardinality(selected)
        /\ Cardinality(selected) = Min2(run.take, Cardinality(pending))
        /\ \A x \in selected : \A y \in pending \ selected : x < y

DriveNext ==
    \/ \E kind \in DriveCallKinds : DriveCallStart(kind) /\ UNCHANGED notDrive
    \/ DriveCallSucceeds /\ UNCHANGED notDrive
    \/ \E error \in ThrownErrors(Len(dcCur.errors) + 1) : DriveCallFails(error) /\ UNCHANGED notDrive

InitDrive ==
    DriveInit /\ LruIdle /\ RetryIdle /\ GenIdle /\ LocIdle /\ SyncIdle /\ TtlIdle /\ SchedIdle
              /\ EnqIdle /\ SurvIdle
        /\ XlsIdle
        /\ FolderIdle
        /\ CronIdle
        /\ JobIdle

SpecDrive == InitDrive /\ [][DriveNext]_vars

\* C23: an external call of the batch sync (folder search or creation, photo upload,
\* spreadsheet file search, download or upload) that ends in failure although every
\* one of its errors was a network or rate-limit error has been attempted
\* retryAttempts + 1 times: it was retried up to its budget before it was given up.
C23_ExternalCallsRetried ==
    \A i \in 1..Len(dcDone) :
        (/\ ~dcDone[i].ok
         /\ \A j \in 1..Len(dcDone[i].errors) : IsRetryableError(dcDone[i].errors[j]))
            => Len(dcDone[i].errors) = DRIVE_retryAttempts + 1

\* No two calls of getLocationCode have been in progress at the same time so far.
LocNoOverlap ==
    /\ Cardinality({p \in LocProcs : locProc[p].pc # "idle"}) <= 1
    /\ \A p \in LocProcs : locProc[p].pc # "idle" => locProc[p].after = Len(locDone)
    /\ \A i \in 1..Len(locDone) : locDone[i].after = i - 1

\* Two different areas of one level hold the same code in the store.
LocDuplicateCode ==
    \E a, b \in Areas :
        a # b /\ AreaLevel(a) = AreaLevel(b) /\ geoCode[a] # <<>> /\ geoCode[a] = geoCode[b]

\* C24: two overlapping first-time lookups of two code-less regions of one level whose
\* names yield the same candidate can leave both regions with the same code (the
\* state of C24_Witness); as long as no two lookups have overlapped, the codes
\* assigned at a level (base code, digit suffix or pair of initials) are pairwise
\* distinct.
C24_DistinctCodesUnlessOverlap ==
    LocNoOverlap => ~LocDuplicateCode

\* The communes Ta Khmau and Ta Khmao, looked up by two overlapping calls, both hold
\* the base code of their name.
C24_Witness ==
    /\ geoCode["c1"] = geoCode["c2"]
    /\ geoCode["c1"] = GenerateBaseCode(Name_TaKhmau)
    /\ GenerateBaseCode(Name_TaKhmau) = GenerateBaseCode(Name_TaKhmao)
    /\ Len(locDone) = 2
    /\ {locDone[1].coord, locDone[2].coord} \subseteq {Coord_A, Coord_A4, Coord_A10, Coord_B}
    /\ locDone[1].outcome = "ok" /\ locDone[2].outcome = "ok"
    /\ locDone[2].after = 0

XlsNext ==
    \/ \E p \in XlsInvocations : XlsDownload(p) /\ UNCHANGED notXls
    \/ \E p \in XlsInvocations : XlsAppend(p) /\ UNCHANGED notXls
    \/ \E p \in XlsInvocations, ok \in BOOLEAN : XlsUpload(p, ok) /\ UNCHANGED notXls
    \/ \E p \in XlsInvocations : XlsUpdateStatus(p) /\ UNCHANGED notXls

InitXls ==
    XlsInit /\ LruIdle /\ RetryIdle /\ GenIdle /\ LocIdle /\ SyncIdle /\ TtlIdle /\ SchedIdle
            /\ EnqIdle /\ SurvIdle /\ DriveIdle
        /\ FolderIdle
        /\ CronIdle
        /\ JobIdle

SpecXls == InitXls /\ [][XlsNext]_vars

\* C25: nothing excludes two overlapping invocations from each other on one
\* spreadsheet: the file on Drive is what the last upload put there, namely the rows
\* its invocation had downloaded followed by its own rows, whatever the other
\* invocation uploaded in between; and an invocation whose upload succeeded marks its
\* records synced whether or not their rows are still in the file. (C25_Witness is
\* the interleaving in which the rows of one invocation are lost.)
C25_LastUploadWins ==
    /\ xUploads # <<>> =>
          LET last == xUploads[Len(xUploads)]
          IN  xSheet = xSeen[last] \o xRows[last]
    /\ \A p \in XlsInvocations :
          xPc[p] = "done" =>
             \A id \in Range(xRows[p]) :
                xStatus[id] = IF p \in Range(xUploads) THEN "synced" ELSE "failed"

\* Both invocations are over and have marked their records synced, and the file
\* holds the rows of the second one only: those of the first are lost.
C25_Witness ==
    /\ \A p \in XlsInvocations : xPc[p] = "done"
    /\ \A id \in Range(xRows[1]) \cup Range(xRows[2]) : xStatus[id] = "synced"
    /\ xRows[1] = <<1, 2>>
    /\ xSheet = <<0>> \o xRows[2]
    /\ Range(xRows[1]) \cap Range(xSheet) = {}

\* The row of the record was handed to a call of syncExcelWithDrive that returned
\* without throwing.
RowWrittenInCompletedCycle(id) ==
    \E i \in 1..Len(sCycles) :
        /\ ~sCycles[i].open
        /\ id \in Range(sCycles[i].rows)
        /\ ~\E f \in sFaults.excel : f[1] = sCycles[i].key

\* C26: a record is set to synced only if its row was part of a destination-group
\* spreadsheet write that completed successfully in the same invocation, whether or
\* not the Drive service is available and whether or not its field has a province name.
C26_SyncedOnlyAfterGroupWrite ==
    \A id \in Batch :
        sStore[id].syncStatus = "synced" => RowWrittenInCompletedCycle(id)

\* The rows of the file of a group on Drive when the invocation began.
RowsBeforeInvocation(groupKey) == IF groupKey = "Takeo" THEN <<0>> ELSE <<>>

\* C27: a call of syncExcelWithDrive that returns without throwing leaves the file
\* with the rows it had before, followed by the rows of the group in order, also when
\* the download of the existing file failed with an error.
C27_GroupWriteKeepsStoredRows ==
    \A i \in 1..Len(sCycles) :
        (~sCycles[i].open /\ ~\E f \in sFaults.excel : f[1] = sCycles[i].key) =>
            sSheets[sCycles[i].key] = RowsBeforeInvocation(sCycles[i].key) \o sCycles[i].rows

FolderNext ==
    \/ \E w \in FolderWorkers, key \in FolderKeys : FolderStart(w, key) /\ UNCHANGED notFolder
    \/ \E w \in FolderWorkers : FolderSearchReturns(w) /\ UNCHANGED notFolder
    \/ \E w \in FolderWorkers : FolderCreateReturns(w) /\ UNCHANGED notFolder
    \/ \E w \in FolderWorkers : FolderRequestFails(w) /\ UNCHANGED notFolder

InitFolder ==
    FolderInit /\ LruIdle /\ RetryIdle /\ GenIdle /\ LocIdle /\ SyncIdle /\ TtlIdle /\ SchedIdle
               /\ EnqIdle /\ SurvIdle /\ DriveIdle /\ XlsIdle
        /\ CronIdle
        /\ JobIdle

SpecFolder == InitFolder /\ [][FolderNext]_vars

\* C28: when several workers of one invocation need the same folder, which does not
\* exist and is not cached, at most one create-folder request is issued for it and
\* all the workers obtain the same folder id.
C28_FolderCreatedOnce ==
    \A key \in FolderKeys :
        /\ Cardinality({i \in 1..Len(fDrive) : fDrive[i].key = key /\ fDrive[i].created}) <= 1
        /\ \A i, j \in 1..Len(fDone) :
              (fDone[i].key = key /\ fDone[j].key = key /\ fDone[i].id # 0 /\ fDone[j].id # 0)
                 => fDone[i].id = fDone[j].id

CronNext ==
    \/ \E enabled, valid, runOnStart \in BOOLEAN :
          StartDriveSyncCron(enabled, valid, runOnStart) /\ UNCHANGED notCron
    \/ \E t \in CronTasks : CronTick(t) /\ UNCHANGED notCron
    \/ \E t \in CronTasks, threw \in BOOLEAN : CronRunEnds(t, threw) /\ UNCHANGED notCron

InitCron ==
    CronInit /\ LruIdle /\ RetryIdle /\ GenIdle /\ LocIdle /\ SyncIdle /\ TtlIdle /\ SchedIdle
             /\ EnqIdle /\ SurvIdle /\ DriveIdle /\ XlsIdle /\ FolderIdle
        /\ JobIdle

SpecCron == InitCron /\ [][CronNext]_vars

\* C29: at most one scheduled run executes at any time in the process; a runSync that
\* fires while a run is in progress starts nothing, and nothing is queued for it; the
\* guard is released when a run ends, completed or thrown, so a runSync that fires
\* when no run is in progress starts one; a later call of startDriveSyncCron returns
\* the task already scheduled and schedules no other.
C29_OneScheduledRunAtATime ==
    /\ \A t \in CronTasks : cRunning[t] \in {0, 1} /\ (cIsRunning[t] <=> cRunning[t] = 1)
    /\ Cardinality({t \in CronTasks : cRunning[t] > 0}) <= 1
    /\ cScheduled <= 1 /\ cTask = cScheduled
    /\ \A i \in 1..Len(cLog) :
          /\ cLog[i].op = "runSync" => (cLog[i].started <=> cLog[i].inProgress = 0)
          /\ (cLog[i].op = "start" /\ \E j \in 1..(i - 1) : cLog[j].op = "start" /\ cLog[j].scheduled)
                => cLog[i].returned = 1 /\ ~cLog[i].scheduled
    /\ Cardinality({i \in 1..Len(cLog) : cLog[i].op = "end"}) + Cardinality({t \in CronTasks : cRunning[t] > 0})
          = Cardinality({i \in 1..Len(cLog) : cLog[i].op = "runSync" /\ cLog[i].started})

\* A tick during the run on start is skipped; the run throws; the next tick starts
\* a new run.
C29_Witness ==
    /\ Len(cLog) = 5
    /\ cLog[1].op = "runSync" /\ cLog[1].started
    /\ cLog[2].op = "start" /\ cLog[2].scheduled
    /\ cLog[3].op = "runSync" /\ ~cLog[3].started
    /\ cLog[4].op = "end" /\ cLog[4].threw
    /\ cLog[5].op = "runSync" /\ cLog[5].started

JobNext ==
    \/ \E j \in QueueJobs : JobAttemptStarts(j) /\ UNCHANGED notJob
    \/ \E j \in QueueJobs : JobLoadPhotos(j) /\ UNCHANGED notJob
    \/ \E j \in QueueJobs, ok \in BOOLEAN : JobSave(j, ok) /\ UNCHANGED notJob
    \/ \E j \in QueueJobs : JobCleanup(j) /\ UNCHANGED notJob

InitJob ==
    JobInit /\ LruIdle /\ RetryIdle /\ GenIdle /\ LocIdle /\ SyncIdle /\ TtlIdle /\ SchedIdle
            /\ EnqIdle /\ SurvIdle /\ DriveIdle /\ XlsIdle /\ FolderIdle /\ CronIdle

SpecJob == InitJob /\ [][JobNext]_vars

\* C30: when an attempt of a queued job has failed, the photo files stored at enqueue
\* time are still there when a later attempt of the job runs; the temporary directory
\* of a job is removed only once the job will not be attempted again.
C30_PhotosKeptForRetries ==
    /\ \A i \in 1..Len(jLog) : jPhotos[jLog[i].job] > 0 => jLog[i].dirPresent
    /\ \A j \in QueueJobs : ~jDir[j] => jPc[j] \in {"completed", "failed"}

\* C6: once the localCode of an area is set in the store it never changes again,
\* under every interleaving of concurrent getLocationCode calls.
C6_CodeWriteOnce ==
    [][\A a \in Areas : geoCode[a] # <<>> => geoCode'[a] = geoCode[a]]_vars

====
